---- MODULE Spec2Model ----
(***************************************************************************)
(* PyRex: per-record WARC processing pipeline (pyrex.py, pyrex_basic.py,   *)
(* pyrex_html.py, pyrex_output.py).                                        *)
(*                                                                         *)
(* Strings are modelled as follows.  A host name, a TLD, a domain is a     *)
(* dotted name: the sequence of its labels ("www.example.de" is            *)
(* <<"www","example","de">>, the empty string is <<>>).  A label or a path *)
(* segment is a token of a small alphabet on which lower() and strip()     *)
(* are given by what they do to it.  Python's None is the value None.      *)
(***************************************************************************)
EXTENDS Integers, Sequences, FiniteSets, TLC

None == "None"
\* None where a dotted name (or a list of segments) is expected
NoName == <<None>>

\* ---------------------------------------------------------------- bounds
MaxHostLabels == 3
MaxPathSegs == 2

\* ------------------------------------------------------- string helpers
\* str.lower() on the tokens of the model's alphabet
Lower(s) ==
    CASE s = "DE" -> "de"
      [] s = "De" -> "de"
      [] s = " DE " -> " de "
      [] s = "WWW" -> "www"
      [] OTHER -> s

\* str.strip() on the tokens of the model's alphabet
Strip(s) ==
    CASE s = " " -> ""
      [] s = " de " -> "de"
      [] s = " DE " -> "DE"
      [] OTHER -> s

\* lower() of a dotted name, label by label
LowerName(n) == [i \in DOMAIN n |-> Lower(n[i])]

\* [x.lower() for x in xs] for a list of labels / segments
LowerAll(xs) == {Lower(x) : x \in xs}

\* [x.lower() for x in xs] for a list of dotted names
LowerAllNames(xs) == {LowerName(x) : x \in xs}

SeqsUpTo(S, n) == UNION {[1..k -> S] : k \in 0..n}

Last(s) == s[Len(s)]

\* ------------------------------------------------------------ URL inputs
HostLabels == {"DE", "www", "com"}
PathSegs == {"", " DE ", "de-de"}

\* A URL: raw is "empty" (''), "blank" (whitespace only) or "text";
\* bad: urlparse raises ValueError on it; host: the labels of the netloc
\* (<<>> when the URL has none, as 'not-a-url' or 'file:///local/path');
\* path: the pieces of path.split('/').
Urls ==
    {[raw |-> "empty", bad |-> FALSE, host |-> <<>>, path |-> <<>>],
     [raw |-> "blank", bad |-> FALSE, host |-> <<>>, path |-> <<>>]}
    \cup {[raw |-> "text", bad |-> TRUE, host |-> <<>>, path |-> <<>>]}
    \cup [raw : {"text"}, bad : {FALSE},
          host : SeqsUpTo(HostLabels, MaxHostLabels),
          path : SeqsUpTo(PathSegs, MaxPathSegs)]

\* The public suffixes tldextract knows (the model's public suffix list)
PublicSuffixes == {<<"de">>, <<"com">>}

\* tldextract.extract(url): suffix, domain, subdomain of the host
TldExtract(host) ==
    LET h == LowerName(host)
        n == Len(h)
        \* lengths of the suffixes of h that are public suffixes
        ks == {k \in 1..n : SubSeq(h, n - k + 1, n) \in PublicSuffixes}
        k == IF ks = {} THEN 0 ELSE CHOOSE x \in ks : \A y \in ks : y <= x
        rest == SubSeq(h, 1, n - k)
    IN  [suffix |-> SubSeq(h, n - k + 1, n),
         domain |-> IF rest = <<>> THEN <<>> ELSE <<Last(rest)>>,
         subdomain |-> IF rest = <<>> THEN <<>> ELSE SubSeq(rest, 1, Len(rest) - 1)]

\* Manual parsing of the host (pyrex.py 92-96 and 99-103)
ManualParse(hostname) ==
    LET parts == hostname
    IN  [tld |-> <<Last(parts)>>,
         domain |-> IF Len(parts) >= 2
                    THEN SubSeq(parts, Len(parts) - 1, Len(parts))
                    ELSE hostname,
         subdomain |-> IF Len(parts) > 2 THEN <<parts[1]>> ELSE <<>>,
         full_hostname |-> hostname]

\* Components from tldextract's result (pyrex.py 72-86)
FromTldExtract(hostname, extracted) ==
    LET tld == extracted.suffix
        domain_name == extracted.domain
        subdomain == extracted.subdomain
    IN  IF tld # <<>> /\ domain_name # <<>>
        THEN [tld |-> tld,
              domain |-> domain_name \o tld,
              subdomain |-> subdomain,
              full_hostname |-> IF subdomain # <<>>
                                THEN subdomain \o domain_name \o tld
                                ELSE domain_name \o tld]
        ELSE [tld |-> IF Len(hostname) > 1 THEN <<Last(hostname)>> ELSE <<>>,
              domain |-> hostname,
              subdomain |-> IF Len(hostname) > 1 /\ Len(hostname) > 2
                            THEN <<hostname[1]>> ELSE <<>>,
              full_hostname |-> hostname]

\* The three checks and their OR (pyrex.py 105-117)
TldMatch(tld, accepted_tlds) ==
    IF tld # <<>> THEN tld \in LowerAllNames(accepted_tlds) ELSE FALSE

SubdomainMatch(subdomain, accepted_subdomains) ==
    IF subdomain # <<>> THEN subdomain \in LowerAllNames(accepted_subdomains) ELSE FALSE

PathSegments(path) ==
    LET kept == {i \in DOMAIN path : Strip(Lower(path[i])) # ""}
        F[i \in 0..Len(path)] ==
            IF i = 0 THEN <<>>
            ELSE IF i \in kept THEN Append(F[i - 1], Strip(Lower(path[i])))
            ELSE F[i - 1]
    IN  F[Len(path)]

PathMatch(path_segments, accepted_path_segments) ==
    \E i \in DOMAIN path_segments :
        path_segments[i] \in LowerAll(accepted_path_segments)

MutShouldContinue(tld_match, subdomain_match, path_match) ==
    tld_match /\ (subdomain_match \/ path_match)

ShouldContinue(tld_match, subdomain_match, path_match) ==
    tld_match \/ subdomain_match \/ path_match

Rejected(parsed, caught) ==
    [ok |-> FALSE, tld |-> NoName, domain |-> NoName, hostname |-> NoName,
     subdomain |-> NoName, path_segments |-> NoName,
     parsed |-> parsed, caught |-> caught]

\* The early return when URL filtering is disabled (pyrex.py 49-50)
MutFilteringDisabled(url, st) ==
    ~st.enable_url_filtering /\ url.raw = "text"

FilteringDisabled(url, st) ==
    ~st.enable_url_filtering

\* not url or not url.strip() (pyrex.py 53)
NoUrl(url) == url.raw \in {"empty", "blank"}

\* The outer exception handler (pyrex.py 128-131)
MutUrlParseFailed ==
    [ok |-> TRUE, tld |-> NoName, domain |-> NoName, hostname |-> NoName,
     subdomain |-> NoName, path_segments |-> NoName,
     parsed |-> TRUE, caught |-> "urlparse"]

UrlParseFailed == Rejected(TRUE, "urlparse")

\* parse_and_filter_url(url) under settings st and environment e, with
\* tldx the outcome of tldextract.extract ("ok" or "raises").  The
\* result carries the returned tuple (ok, tld, domain, hostname), what the
\* verbose log prints (subdomain, path_segments), whether urlparse was
\* called (parsed) and which exception handler ran (caught).
ParseAndFilterUrl(url, st, e, tldx) ==
    IF FilteringDisabled(url, st)
    THEN [ok |-> TRUE, tld |-> NoName, domain |-> NoName, hostname |-> NoName,
          subdomain |-> NoName, path_segments |-> NoName,
          parsed |-> FALSE, caught |-> "none"]
    ELSE IF NoUrl(url)
    THEN Rejected(FALSE, "none")
    ELSE IF url.bad
    THEN UrlParseFailed
    ELSE
      LET hostname == LowerName(url.host)
      IN  IF hostname = <<>>
          THEN Rejected(TRUE, "none")
          ELSE
            LET c == IF e.TLDEXTRACT_AVAILABLE
                     THEN IF tldx = "raises"
                          THEN ManualParse(hostname)
                          ELSE FromTldExtract(hostname, TldExtract(url.host))
                     ELSE ManualParse(hostname)
                segs == PathSegments(url.path)
                tld_match == TldMatch(c.tld, st.accepted_tlds)
                subdomain_match == SubdomainMatch(c.subdomain, st.accepted_subdomains)
                path_match == PathMatch(segs, st.accepted_path_segments)
            IN  [ok |-> ShouldContinue(tld_match, subdomain_match, path_match),
                 tld |-> c.tld, domain |-> c.domain, hostname |-> c.full_hostname,
                 subdomain |-> c.subdomain, path_segments |-> segs,
                 parsed |-> TRUE,
                 caught |-> IF e.TLDEXTRACT_AVAILABLE /\ tldx = "raises"
                            THEN "tldextract" ELSE "none"]

\* ------------------------------------------------------ language inputs
MaxPad == 1
MaxBody == 11

\* the minimum sample length (pyrex_basic.py 123)
MinSampleLen == 10
\* langid confidence bar, in percent: confidence > 0.8 (pyrex_basic.py 244)
LangidBar == 80

Spaces(n) == [i \in 1..n |-> " "]
Xs(n) == [i \in 1..n |-> "x"]

\* Texts: n letters between l leading and r trailing blanks, n around the
\* minimum sample length
BodyLens == {0} \cup ((MinSampleLen - 2)..MaxBody)
Texts == {Spaces(l) \o Xs(n) \o Spaces(r) :
            l \in 0..MaxPad, n \in BodyLens, r \in 0..MaxPad}

\* text[:n]
Take(text, n) == SubSeq(text, 1, IF n < Len(text) THEN n ELSE Len(text))

\* text.strip() on a character sequence
RECURSIVE LStrip(_)
LStrip(t) == IF t # <<>> /\ Head(t) = " " THEN LStrip(Tail(t)) ELSE t
RECURSIVE RStrip(_)
RStrip(t) ==
    IF t # <<>> /\ t[Len(t)] = " " THEN RStrip(SubSeq(t, 1, Len(t) - 1)) ELSE t
StripText(t) == RStrip(LStrip(t))

\* Language codes; lower() of a code
LowerCode(c) == CASE c = "DE" -> "de" [] c = "EN" -> "en" [] OTHER -> c
LowerCodes(cs) == {LowerCode(c) : c \in cs}

\* The codes the lingua branch maps to a Language (pyrex_basic.py 140-184)
LinguaSupported ==
    {"de", "en", "fr", "es", "it", "pt", "nl", "ru", "zh", "ja", "ko", "ar",
     "sv", "da", "no"}
\* common_languages (pyrex_basic.py 192-194)
CommonLanguages == {"en", "de", "fr", "es", "it", "nl", "sv", "da", "no"}
\* all_languages (pyrex_basic.py 204)
AllLanguages(st) ==
    (LowerCodes(st.accepted_languages) \cap LinguaSupported) \cup CommonLanguages

\* Classifier outcomes.  lingua: kind "raises", "empty" (no confidence
\* values) or "ok" with the top candidate lang and its conf in percent;
\* langid: kind "import_error" (langid is not installed), "raises" or "ok"
\* with its single guess lang and conf.
LinguaConfs == {75, 90}
LangidConfs == {80, 90}
ProbeLanguages == {"de", "en"}
LinguaOutcomes ==
    {[kind |-> k, lang |-> None, conf |-> 0] : k \in {"raises", "empty"}}
    \cup [kind : {"ok"}, lang : ProbeLanguages, conf : LinguaConfs]
LangidOutcomes ==
    {[kind |-> k, lang |-> None, conf |-> 0] : k \in {"import_error", "raises"}}
    \cup [kind : {"ok"}, lang : ProbeLanguages, conf : LangidConfs]

\* len(sample_text) < 10 (pyrex_basic.py 123)
MutTooShort(sample_text) == Len(sample_text) <= MinSampleLen

TooShort(sample_text) == Len(sample_text) < MinSampleLen

LangResult(accepted, detected, lingua, langid) ==
    [accepted |-> accepted, detected |-> detected,
     lingua |-> lingua, langid |-> langid]

\* The lingua branch (pyrex_basic.py 130-236): the detected code or None.
LinguaDetect(st, e, lingua) ==
    IF ~e.LINGUA_AVAILABLE \/ lingua.kind \in {"raises", "empty"} THEN None
    ELSE IF lingua.conf >= st.language_confidence_threshold THEN lingua.lang
    ELSE None

\* The condition under which langid is tried (pyrex_basic.py 239)
LangidTried(st, e, lingua, detected_language) ==
    detected_language = None

\* The langid branch (pyrex_basic.py 240-253): the detected code or None.
LangidDetect(langid) ==
    IF langid.kind \in {"import_error", "raises"} THEN None
    ELSE IF langid.conf > LangidBar THEN langid.lang
    ELSE None

MutIsAccepted(detected_language, st) ==
    st.accepted_languages # {}

IsAccepted(detected_language, st) ==
    LowerCode(detected_language) \in LowerCodes(st.accepted_languages)

\* detect_and_filter_languages(text) under settings st and environment e,
\* with the outcomes the two classifiers give on the sample.  The result
\* carries the returned pair (accepted, detected) and which classifier ran
\* to completion or raised: lingua, langid in
\* {"not_run", "unavailable", "raised", "ran"}.
DetectAndFilterLanguages(text, st, e, lingua, langid) ==
    IF ~st.enable_language_filtering
    THEN LangResult(TRUE, None, "not_run", "not_run")
    ELSE IF text = <<>> \/ StripText(text) = <<>>
    THEN LangResult(FALSE, None, "not_run", "not_run")
    ELSE
      LET sample_text == StripText(Take(text, st.language_detection_chars))
      IN  IF TooShort(sample_text)
          THEN LangResult(FALSE, None, "not_run", "not_run")
          ELSE
            LET first == LinguaDetect(st, e, lingua)
                lingua_status == IF ~e.LINGUA_AVAILABLE THEN "unavailable"
                                 ELSE IF lingua.kind = "raises" THEN "raised"
                                 ELSE "ran"
                tried == LangidTried(st, e, lingua, first)
                detected_language == IF tried THEN LangidDetect(langid) ELSE first
                langid_status == IF ~tried THEN "not_run"
                                 ELSE IF langid.kind = "import_error" THEN "unavailable"
                                 ELSE IF langid.kind = "raises" THEN "raised"
                                 ELSE "ran"
            IN  IF detected_language # None
                THEN LangResult(IsAccepted(detected_language, st), detected_language,
                                lingua_status, langid_status)
                ELSE LangResult(FALSE, None, lingua_status, langid_status)

\* ------------------------------------------------- payloads and decoding
\* A payload (bytes): prefix is what it starts with, nodes its markup, one
\* node per element or comment with the number n of letters of its text,
\* charset the encoding the bytes are really in, nfc whether its characters
\* are all composed, ents the part of the text that holds its ampersands, as
\* a sequence of tokens (the characters "&", ";" and "<" and the entity
\* names "amp" and "lt"), escapes whether it holds terminal escape
\* sequences.  A string is the same with, for charset, garble: "clean",
\* "mojibake" (decoded with a wrong single-byte codec) or "replaced"
\* (undecodable bytes replaced by U+FFFD).
KnownCodecs == {"utf-8", "cp1252"}

\* chardet.detect(payload[:sample_size]): encoding and confidence (percent)
ChardetOutcomes ==
    [encoding : {None, "utf-8", "cp1252", "x-unknown"}, confidence : {50, 70, 90}]

\* the comparison of the confidence the other way round
MutChosenEncoding(detection, st) ==
    IF detection.confidence <= st.confidence_threshold
       \/ detection.encoding = None
    THEN "utf-8" ELSE detection.encoding

\* encoding, after the fallback for an uncertain detection
\* (pyrex_basic.py 36-41)
ChosenEncoding(detection, st) ==
    IF detection.confidence < st.confidence_threshold
       \/ detection.encoding = None
    THEN "utf-8" ELSE detection.encoding

\* the codec that decodes: a name Python does not know is a LookupError,
\* caught by the final fallback (pyrex_basic.py 43-48)
UsedCodec(encoding) == IF encoding \in KnownCodecs THEN encoding ELSE "utf-8"

\* payload.decode(codec, errors='replace')
Decode(payload, codec) ==
    [prefix |-> payload.prefix, nodes |-> payload.nodes, nfc |-> payload.nfc,
     ascii |-> payload.charset = "ascii",
     garble |-> IF payload.charset = "ascii" \/ codec = payload.charset
                THEN "clean"
                ELSE IF codec = "utf-8" THEN "replaced" ELSE "mojibake",
     ents |-> payload.ents, escapes |-> payload.escapes]

\* decode_and_normalize(payload) given what chardet detects
DecodeAndNormalize(payload, st, detection) ==
    Decode(payload, UsedCodec(ChosenEncoding(detection, st)))

\* ------------------------------------------------------ HTML entities
EntityNames == {"amp", "lt"}

\* the character an entity stands for
CharOf(name) == IF name = "amp" THEN "&" ELSE "<"

\* the number of entity names in a row from position i of s
RECURSIVE RunLen(_, _)
RunLen(s, i) ==
    IF i > Len(s) \/ s[i] \notin EntityNames THEN 0 ELSE 1 + RunLen(s, i + 1)

HasAmpersand(s) == \E i \in DOMAIN s : s[i] = "&"

\* html.unescape(s) from position i: one pass from left to right; a
\* reference is an ampersand, a run of letters and an optional semicolon;
\* when the letters are no entity name, their longest prefix that is one
\* (without semicolon) is replaced and the rest is kept
RECURSIVE HtmlUnescapeFrom(_, _)
HtmlUnescapeFrom(s, i) ==
    IF i > Len(s) THEN <<>>
    ELSE IF s[i] # "&" THEN <<s[i]>> \o HtmlUnescapeFrom(s, i + 1)
    ELSE LET k == RunLen(s, i + 1)
             semi == i + k + 1 <= Len(s) /\ s[i + k + 1] = ";"
             end == i + k + (IF semi THEN 1 ELSE 0)
         IN  IF k = 0 THEN <<"&">> \o HtmlUnescapeFrom(s, i + 1)
             ELSE IF k = 1 THEN <<CharOf(s[i + 1])>> \o HtmlUnescapeFrom(s, end + 1)
             ELSE <<CharOf(s[i + 1])>> \o SubSeq(s, i + 2, end)
                  \o HtmlUnescapeFrom(s, end + 1)

HtmlUnescape(s) == HtmlUnescapeFrom(s, 1)

\* one pass of ftfy's unescape_html: only an ampersand, letters and a
\* semicolon are looked at, and replaced when the letters are an entity name
RECURSIVE FtfyUnescapeFrom(_, _)
FtfyUnescapeFrom(s, i) ==
    IF i > Len(s) THEN <<>>
    ELSE IF s[i] # "&" THEN <<s[i]>> \o FtfyUnescapeFrom(s, i + 1)
    ELSE LET k == RunLen(s, i + 1)
             semi == i + k + 1 <= Len(s) /\ s[i + k + 1] = ";"
         IN  IF k = 0 \/ ~semi THEN <<"&">> \o FtfyUnescapeFrom(s, i + 1)
             ELSE IF k = 1 THEN <<CharOf(s[i + 1])>> \o FtfyUnescapeFrom(s, i + 3)
             ELSE SubSeq(s, i, i + k + 1) \o FtfyUnescapeFrom(s, i + k + 2)

\* ftfy.fix_text applies its fixes until the text no longer changes
RECURSIVE FtfyUnescape(_)
FtfyUnescape(s) ==
    LET t == FtfyUnescapeFrom(s, 1)
    IN  IF t = s THEN s ELSE FtfyUnescape(t)

\* ftfy.fix_text(text, fix_entities=True, remove_terminal_escapes=True, ...)
FtfyFixText(txt) ==
    [txt EXCEPT !.garble = IF @ = "mojibake" THEN "clean" ELSE @,
                !.ents = FtfyUnescape(@),
                !.escapes = FALSE]

\* the test of the fast path without the setting
MutSkipsRepair(txt, st) == txt.ascii /\ ~HasAmpersand(txt.ents)

\* the fast path of fix_text_encoding (pyrex_basic.py 70): the text is
\* ASCII and has no '&' (an ASCII text has no 'â')
SkipsRepair(txt, st) ==
    ~st.skip_ascii_optimization /\ txt.ascii /\ ~HasAmpersand(txt.ents)

\* fix_text_encoding(text), with the way it took; ftfy_raises: ftfy.fix_text
\* raises
FixTextEncodingVia(txt, st, ftfy_raises) ==
    IF SkipsRepair(txt, st) THEN [text |-> txt, path |-> "unchanged"]
    ELSE IF ftfy_raises THEN [text |-> txt, path |-> "failed"]
    ELSE LET fixed_text == FtfyFixText(txt)
         IN  [text |-> IF HasAmpersand(fixed_text.ents)
                       THEN [fixed_text EXCEPT !.ents = HtmlUnescape(@)]
                       ELSE fixed_text,
              path |-> "repaired"]

FixTextEncoding(txt, st, ftfy_raises) == FixTextEncodingVia(txt, st, ftfy_raises).text

\* unicodedata.normalize('NFC', text)
NormalizeNFC(txt) == [txt EXCEPT !.nfc = TRUE]

\* payload_start = html_payload[:sample].strip().lower() and its test
\* (pyrex.py 281-282)
LowerPrefix(x) ==
    CASE x = "<!DOCTYPE html" -> "<!doctype html"
      [] x = " <HTML" -> " <html"
      [] OTHER -> x
StripPrefix(x) == CASE x = " <HTML" -> "<HTML" [] x = " <html" -> "<html" [] OTHER -> x
StartsAsHtml(txt) ==
    LowerPrefix(StripPrefix(txt.prefix)) \in {"<!doctype html", "<html"}

\* 'html' in content_type, content_type lowered (pyrex.py 275-276)
LowerContentType(x) == CASE x = "text/HTML" -> "text/html" [] OTHER -> x
ContentTypeSaysHtml(content_type) == LowerContentType(content_type) = "text/html"

IsHtml(content_type, txt) ==
    IF ContentTypeSaysHtml(content_type) THEN TRUE ELSE StartsAsHtml(txt)

\* ----------------------------------------------------------- extraction
\* elements_to_remove of parse_html_fast (pyrex_html.py 42-49)
ElementsToRemoveFast(st) ==
    (IF st.remove_scripts THEN {"script"} ELSE {})
    \cup (IF st.remove_styles THEN {"style"} ELSE {})
    \cup {"meta", "link", "title", "base"}

\* elements_to_remove of parse_html (pyrex_html.py 94-101)
ElementsToRemoveFull(st) ==
    (IF st.remove_scripts THEN {"script"} ELSE {})
    \cup (IF st.remove_styles THEN {"style"} ELSE {})
    \cup {"meta", "link", "title", "base"}

\* The text pieces of the kept nodes joined by ' ', empty pieces dropped
\* (text(separator=' ', strip=True), get_text(separator=' ', strip=True))
RECURSIVE JoinText(_, _)
JoinText(nodes, removed) ==
    IF nodes = <<>> THEN <<>>
    ELSE LET rest == JoinText(Tail(nodes), removed)
             n == Head(nodes)
         IN  IF n.tag \in removed \/ n.tag = "comment" \/ n.n = 0 THEN rest
             ELSE IF rest = <<>> THEN Xs(n.n)
             ELSE Xs(n.n) \o <<" ">> \o rest

\* The text pieces selectolax joins: one per text node of a kept element,
\* the whitespace between two elements (a node "space") being a text node
\* too, whose stripped text is empty
RECURSIVE PiecesFast(_, _)
PiecesFast(nodes, removed) ==
    IF nodes = <<>> THEN <<>>
    ELSE LET rest == PiecesFast(Tail(nodes), removed)
             n == Head(nodes)
         IN  IF n.tag = "space" THEN <<<<>>>> \o rest
             ELSE IF n.tag \in removed \/ n.tag = "comment" \/ n.n = 0 THEN rest
             ELSE <<Xs(n.n)>> \o rest

RECURSIVE JoinPieces(_)
JoinPieces(pieces) ==
    IF pieces = <<>> THEN <<>>
    ELSE IF Len(pieces) = 1 THEN Head(pieces)
    ELSE Head(pieces) \o <<" ">> \o JoinPieces(Tail(pieces))

\* text(separator=' ', strip=True) of selectolax: every text node is
\* stripped and followed by the separator, the empty ones too
JoinTextFast(nodes, removed) == JoinPieces(PiecesFast(nodes, removed))

\* What a parser may do on a document: parse_html_fast raising, the
\* preferred parser of parse_html raising, html.parser raising, the cleaning
\* of the tree raising
ParserOracles ==
    [fast_raises : BOOLEAN, preferred_raises : BOOLEAN,
     lenient_raises : BOOLEAN, clean_raises : BOOLEAN]

ParsersWork ==
    [fast_raises |-> FALSE, preferred_raises |-> FALSE,
     lenient_raises |-> FALSE, clean_raises |-> FALSE]

\* parse_html_fast raises; both tree builders of parse_html raise
FastFails == [ParsersWork EXCEPT !.fast_raises = TRUE]

TreeBuildersFail ==
    [ParsersWork EXCEPT !.preferred_raises = TRUE, !.lenient_raises = TRUE]

\* The characters of the document as they stand, markup included
RECURSIVE RawNodes(_)
RawNodes(nodes) ==
    IF nodes = <<>> THEN <<>>
    ELSE IF Head(nodes).tag = "space" THEN <<" ">> \o RawNodes(Tail(nodes))
    ELSE <<"<">> \o Xs(Head(nodes).n) \o RawNodes(Tail(nodes))

RawText(txt) == (IF txt.prefix = "" THEN <<>> ELSE <<"<">>) \o RawNodes(txt.nodes)

\* What a strategy takes out of the tree it builds: the elements of its
\* elements_to_remove and, in parse_html only, the comments
\* (pyrex_html.py 42-54, 88-105)
RemovedByFast(st) == ElementsToRemoveFast(st)

RemovedByFull(st) ==
    ElementsToRemoveFull(st)
    \cup (IF st.remove_comments THEN {"comment"} ELSE {})

\* The nodes left in the tree
RECURSIVE Kept(_, _)
Kept(nodes, removed) ==
    IF nodes = <<>> THEN <<>>
    ELSE IF Head(nodes).tag \in removed THEN Kept(Tail(nodes), removed)
    ELSE <<Head(nodes)>> \o Kept(Tail(nodes), removed)

\* parse_html_fast(html): raises without selectolax or when the parser
\* does, else the cleaned tree (pyrex_html.py 35-60)
ParseHtmlFast(txt, st, e, px) ==
    IF ~e.SELECTOLAX_AVAILABLE \/ px.fast_raises
    THEN [raised |-> TRUE, tree |-> <<>>, text |-> <<>>]
    ELSE [raised |-> FALSE, tree |-> Kept(txt.nodes, RemovedByFast(st)),
          text |-> JoinTextFast(txt.nodes, ElementsToRemoveFast(st))]

\* parse_html without the second parser
MutParseHtml(txt, st, px) ==
    IF px.preferred_raises \/ px.clean_raises
    THEN [how |-> "wrapped", tried |-> <<"preferred", "wrapped">>,
          tree |-> <<[tag |-> "body", n |-> Len(RawText(txt))]>>,
          text |-> RawText(txt)]
    ELSE [how |-> "preferred", tried |-> <<"preferred">>,
          tree |-> Kept(txt.nodes, RemovedByFull(st)),
          text |-> JoinText(txt.nodes, ElementsToRemoveFull(st))]

\* parse_html(html): the tree of the preferred parser, else of html.parser,
\* both cleaned, else the escaped text as the body of a minimal document
\* (pyrex_html.py 79-117); text is get_text(separator=' ', strip=True) of
\* what it returns
ParseHtml(txt, st, px) ==
    LET built == IF ~px.preferred_raises THEN "preferred"
                 ELSE IF ~px.lenient_raises THEN "lenient"
                 ELSE "wrapped"
        how == IF built # "wrapped" /\ px.clean_raises THEN "wrapped" ELSE built
    IN  IF how = "wrapped"
        THEN [how |-> how, tried |-> IF ~px.preferred_raises THEN <<"preferred", "wrapped">>
                                     ELSE <<"preferred", "lenient", "wrapped">>,
              tree |-> <<[tag |-> "body", n |-> Len(RawText(txt))]>>,
              text |-> RawText(txt)]
        ELSE [how |-> how, tried |-> IF how = "preferred" THEN <<"preferred">>
                                     ELSE <<"preferred", "lenient">>,
              tree |-> Kept(txt.nodes, RemovedByFull(st)),
              text |-> JoinText(txt.nodes, ElementsToRemoveFull(st))]

\* parse_html_fast(html).text(separator=' ', strip=True)
VisibleTextFast(txt, st) == JoinTextFast(txt.nodes, ElementsToRemoveFast(st))

\* parse_html(html).get_text(separator=' ', strip=True)
VisibleTextFull(txt, st, px) == ParseHtml(txt, st, px).text

\* extract_text_fast(html) (pyrex_html.py 133-143): the text and the
\* strategies tried, in order
ExtractTextFastVia(txt, st, e, px) ==
    IF e.SELECTOLAX_AVAILABLE /\ ~px.fast_raises
    THEN [text |-> ParseHtmlFast(txt, st, e, px).text, tried |-> <<"fast">>]
    ELSE [text |-> ParseHtml(txt, st, px).text,
          tried |-> (IF e.SELECTOLAX_AVAILABLE THEN <<"fast">> ELSE <<>>)
                    \o ParseHtml(txt, st, px).tried]

ExtractTextFast(txt, st, e, px) == ExtractTextFastVia(txt, st, e, px).text

\* quick_text of process_record (pyrex.py 158-167)
QuickText(txt, st, e, px) ==
    IF e.SELECTOLAX_AVAILABLE
    THEN ExtractTextFast(txt, st, e, px)
    ELSE VisibleTextFull(txt, st, px)

\* The argument of filter_minimal_html: a string, a BeautifulSoup object (of
\* parse_html) or anything else, which has no get_text
AsString(txt) == [kind |-> "str", doc |-> txt]
AsSoup(txt) == [kind |-> "soup", doc |-> txt]
NoDocument == [kind |-> "other", doc |-> <<>>]

MutMinLength(minimal_text_length, st) == 0

\* min_length (pyrex_html.py 162); minimal_text_length is <<>> for None
MinLength(minimal_text_length, st) ==
    IF minimal_text_length # <<>> THEN minimal_text_length[1]
    ELSE st.minimal_text_length

MutMeetsMinimum(text_length, min_length) == text_length > min_length

\* text_length >= min_length (pyrex_html.py 175)
MeetsMinimum(text_length, min_length) == text_length >= min_length

\* filter_minimal_html(parsed_html, minimal_text_length)
\* (pyrex_html.py 160-180)
FilterMinimalHtml(parsed_html, minimal_text_length, st, e, px) ==
    IF parsed_html.kind = "other" THEN FALSE
    ELSE LET visible_text ==
                 IF parsed_html.kind = "str"
                 THEN ExtractTextFast(parsed_html.doc, st, e, px)
                 ELSE ParseHtml(parsed_html.doc, st, px).text
         IN  MeetsMinimum(Len(visible_text), MinLength(minimal_text_length, st))

MutUseFullParsing(st, e) == st.dump_with_html_tags

\* The branch step 4 takes (pyrex.py 183, 189)
UseFullParsing(st, e) ==
    st.dump_with_html_tags \/ ~st.use_fast_parsing \/ ~e.SELECTOLAX_AVAILABLE

MutParsedHtmlOf(strategy) == "soup"

\* parsed_html of step 4: the BeautifulSoup object of the full strategy,
\* None after the fast one (pyrex.py 185, 192, 195)
ParsedHtmlOf(strategy) == IF strategy = "full" THEN "soup" ELSE None

\* Step 4 of process_record (pyrex.py 183-196): strategy is the branch
\* taken, engine the parser the visible text comes from
ExtractStep(txt, st, e, px) ==
    IF UseFullParsing(st, e)
    THEN [strategy |-> "full", parsed_html |-> ParsedHtmlOf("full"),
          engine |-> ParseHtml(txt, st, px).how,
          visible_text |-> VisibleTextFull(txt, st, px)]
    ELSE [strategy |-> "fast", parsed_html |-> ParsedHtmlOf("fast"),
          engine |-> Last(ExtractTextFastVia(txt, st, e, px).tried),
          visible_text |-> ExtractTextFast(txt, st, e, px)]

\* ------------------------------------------------------------------ state
VARIABLES
    settings,      \* config.settings.settings, the global settings object
    env,           \* import-time availability flags of the optional libraries
    url_calls,     \* the last call of parse_and_filter_url: <<>> or <<call>>
    text,          \* the text under language detection
    classifiers,   \* what lingua and langid answer on that text
    lang_calls,    \* the last two calls of detect_and_filter_languages on text
    html_calls,    \* the last call of a function of pyrex_html.py or of step 4
    text_calls,    \* the last call of decode_and_normalize or fix_text_encoding
    reads,         \* the last read of an option of settings: <<>> or <<read>>
    pc,            \* read_warc_file: the statement the run is at
    record_count,  \* read_warc_file: record_count
    rec,           \* the record the loop is at: <<>> or <<record>>
    record_data,   \* the metadata list of the record
    url_check,     \* what parse_and_filter_url returned for it: <<>> or <<r>>
    html_payload,  \* decode_and_normalize(payload): <<>> or <<string>>
    is_html,       \* is_html: <<>> or <<boolean>>
    repaired_payload,    \* process_record: <<>> or <<string>>
    normalized_payload,  \* process_record: <<>> or <<string>>
    lang_check,    \* what the language step found: <<>> or <<result>>
    length_check,  \* what filter_minimal_html returned: <<>> or <<boolean>>
    extracted,     \* step 4: <<>> or <<[parsed_html, visible_text, strategy]>>
    processed_data,  \* what process_record returned: <<>>, <<None>> or <<dict>>
    handed,        \* the calls of the output functions: [record, sink, outcome]
    dump_file,     \* the blocks written to the gzipped output file
    trace,         \* the stages run for the record, with their outcome
    exit_code      \* <<>> while running, <<code>> after sys.exit(code)

urlv == <<url_calls>>
langv == <<text, classifiers, lang_calls>>
fnv == <<html_calls, text_calls, reads>>
recv == <<rec, record_data, url_check, html_payload, is_html, repaired_payload,
          normalized_payload, lang_check, length_check, extracted, processed_data>>
pipev == <<pc, record_count, recv, handed, dump_file, trace, exit_code>>

vars == <<settings, env, urlv, langv, fnv, pipev>>

\* The settings the tests start from.  Confidence thresholds are in percent.
DefaultSettings ==
    [enable_url_filtering |-> TRUE,
     accepted_tlds |-> {<<"De">>},
     accepted_subdomains |-> {<<"De">>},
     accepted_path_segments |-> {"De"},
     enable_language_filtering |-> TRUE,
     accepted_languages |-> {"DE"},
     language_detection_chars |-> 10,
     language_confidence_threshold |-> 85,
     minimal_text_length |-> 10,
     confidence_threshold |-> 70,
     skip_ascii_optimization |-> FALSE,
     remove_scripts |-> TRUE,
     remove_styles |-> TRUE,
     remove_comments |-> TRUE,
     use_fast_parsing |-> TRUE,
     dump_with_html_tags |-> FALSE,
     show_compression_stats |-> TRUE,
     output_mode |-> "console"]

\* minimal_text_length is greater than 0 (settings.py 28-32): its least value
LeastMinimalTextLength == 1

Envs == [TLDEXTRACT_AVAILABLE : BOOLEAN, LINGUA_AVAILABLE : BOOLEAN,
         SELECTOLAX_AVAILABLE : BOOLEAN]

\* The state of read_warc_file before it is called
Idle ==
    /\ pc = "idle"
    /\ record_count = 0
    /\ rec = <<>>
    /\ record_data = <<>>
    /\ url_check = <<>>
    /\ html_payload = <<>>
    /\ is_html = <<>>
    /\ repaired_payload = <<>>
    /\ normalized_payload = <<>>
    /\ lang_check = <<>>
    /\ length_check = <<>>
    /\ extracted = <<>>
    /\ processed_data = <<>>
    /\ handed = <<>>
    /\ dump_file = <<>>
    /\ trace = <<>>
    /\ exit_code = <<>>

NoInput == [lingua |-> CHOOSE o \in LinguaOutcomes : o.kind = "empty",
            langid |-> CHOOSE o \in LangidOutcomes : o.kind = "import_error"]

\* ------------------------------------------- parse_and_filter_url alone
TldChoices == {{}, {<<"De">>}}
SubdomainChoices == {{}, {<<"De">>}, {<<"www">>}}
PathChoices == {{}, {"De"}}

InitUrl ==
    /\ settings = DefaultSettings
    /\ env \in {e \in Envs : e.LINGUA_AVAILABLE /\ e.SELECTOLAX_AVAILABLE}
    /\ url_calls = <<>>
    /\ text = <<>>
    /\ classifiers = NoInput
    /\ lang_calls = <<>>
    /\ html_calls = <<>>
    /\ text_calls = <<>>
    /\ reads = <<>>
    /\ Idle

\* settings.enable_url_filtering = ..., settings.accepted_tlds = ... as the
\* tests assign them (test_url_filtering.py 137-159)
SetUrlSettings ==
    /\ url_calls = <<>>
    /\ \E en \in BOOLEAN, tl \in TldChoices, sd \in SubdomainChoices, ps \in PathChoices :
         settings' = [settings EXCEPT !.enable_url_filtering = en,
                                      !.accepted_tlds = tl,
                                      !.accepted_subdomains = sd,
                                      !.accepted_path_segments = ps]
    /\ UNCHANGED <<env, urlv, langv, pipev, fnv>>

CallParseAndFilterUrl ==
    /\ url_calls = <<>>
    /\ \E url \in Urls, tldx \in {"ok", "raises"} :
         url_calls' = <<[url |-> url, tldx |-> tldx, settings |-> settings,
                         result |-> ParseAndFilterUrl(url, settings, env, tldx)]>>
    /\ UNCHANGED <<settings, env, langv, pipev, fnv>>

NextUrl == SetUrlSettings \/ CallParseAndFilterUrl

SpecUrl == InitUrl /\ [][NextUrl]_vars

\* ------------------------------------ detect_and_filter_languages alone
Thresholds == {70, 85, 95}
LanguageChoices == {{"DE"}, {"en", "de"}}
SampleSizes == {10, 12}

InitLang ==
    /\ settings = DefaultSettings
    /\ env \in {e \in Envs : e.TLDEXTRACT_AVAILABLE /\ e.SELECTOLAX_AVAILABLE}
    /\ url_calls = <<>>
    /\ text = <<>>
    /\ classifiers = NoInput
    /\ lang_calls = <<>>
    /\ html_calls = <<>>
    /\ text_calls = <<>>
    /\ reads = <<>>
    /\ Idle

\* A new text to classify, and what the classifiers answer on it
NewText ==
    /\ text = <<>> /\ lang_calls = <<>>
    /\ text' \in Texts
    /\ classifiers' \in [lingua : {o \in LinguaOutcomes :
                                     o.kind = "ok" => o.lang \in AllLanguages(settings)},
                         langid : LangidOutcomes]
    /\ lang_calls' = <<>>
    /\ UNCHANGED <<settings, env, urlv, pipev, fnv>>

\* settings.accepted_languages = ..., settings.enable_language_filtering = ...
\* (test_language_detection.py 154-171)
SetLanguageSettings ==
    /\ text = <<>> /\ classifiers = NoInput /\ lang_calls = <<>>
    /\ \E en \in BOOLEAN, al \in LanguageChoices, n \in SampleSizes :
         settings' = [settings EXCEPT !.enable_language_filtering = en,
                                      !.accepted_languages = al,
                                      !.language_detection_chars = n]
    /\ UNCHANGED <<env, urlv, langv, pipev, fnv>>

\* settings.language_confidence_threshold = threshold
\* (test_language_precision.py 84)
SetThreshold ==
    /\ \E t \in Thresholds :
         settings' = [settings EXCEPT !.language_confidence_threshold = t]
    /\ UNCHANGED <<env, urlv, langv, pipev, fnv>>

\* should_continue, detected = detect_and_filter_languages(text)
CallDetectAndFilterLanguages ==
    /\ lang_calls' =
         (IF lang_calls = <<>> THEN <<>> ELSE <<lang_calls[Len(lang_calls)]>>)
         \o <<[threshold |-> settings.language_confidence_threshold,
               result |-> DetectAndFilterLanguages(text, settings, env,
                              classifiers.lingua, classifiers.langid)]>>
    /\ UNCHANGED <<settings, env, urlv, text, classifiers, pipev, fnv>>

NextLang ==
    NewText \/ SetLanguageSettings \/ SetThreshold \/ CallDetectAndFilterLanguages

SpecLang == InitLang /\ [][NextLang]_vars

\* --------------------------------------- the functions of pyrex_html.py
MaxRun == 5

\* The lengths of a run of letters: two runs and the blank between them
\* come to one less than, exactly, and one more than the default minimum
Runs == (MaxRun - 1)..MaxRun

Node(tag, n) == [tag |-> tag, n |-> n]

\* A decoded, repaired and normalized document with the given markup
Markup(nodes) ==
    [prefix |-> "<html", nodes |-> nodes, nfc |-> TRUE, ascii |-> TRUE,
     garble |-> "clean", ents |-> <<>>, escapes |-> FALSE]

HtmlDocuments ==
    {Markup(<<>>)}
    \cup {Markup(<<Node("p", a), Node("p", b)>>) : a, b \in Runs}
    \cup {Markup(<<Node("p", a), Node("space", 0), Node("p", b)>>) : a, b \in Runs}
    \cup {Markup(<<Node(t, a), Node("p", MaxRun), Node("p", b)>>) :
            t \in {"comment", "script", "style", "title"}, a, b \in Runs}

\* minimal_text_length as passed to filter_minimal_html: None or a number
MinimumArgs == {<<>>, <<0>>, <<2 * MaxRun + 1>>}

HtmlCall(fn, arg, minimal_text_length, px, result) ==
    [fn |-> fn, arg |-> arg, minimal_text_length |-> minimal_text_length,
     px |-> px, result |-> result]

InitHtml ==
    /\ settings \in
         {[DefaultSettings EXCEPT !.remove_scripts = rs, !.remove_styles = ry,
                                  !.remove_comments = rc,
                                  !.dump_with_html_tags = tags,
                                  !.use_fast_parsing = fast] :
            rs \in BOOLEAN, ry \in BOOLEAN, rc \in BOOLEAN, tags \in BOOLEAN,
            fast \in BOOLEAN}
    /\ env \in {e \in Envs : e.TLDEXTRACT_AVAILABLE /\ e.LINGUA_AVAILABLE}
    /\ url_calls = <<>>
    /\ text = <<>>
    /\ classifiers = NoInput
    /\ lang_calls = <<>>
    /\ html_calls = <<>>
    /\ text_calls = <<>>
    /\ reads = <<>>
    /\ Idle

\* parser = parse_html_fast(html_content)
CallParseHtmlFast ==
    /\ html_calls = <<>>
    /\ \E doc \in HtmlDocuments, px \in {ParsersWork, FastFails} :
         html_calls' = <<HtmlCall("parse_html_fast", AsString(doc), <<>>, px,
                                  ParseHtmlFast(doc, settings, env, px))>>
    /\ UNCHANGED <<settings, env, urlv, langv, text_calls, reads, pipev>>

\* soup = parse_html(html_content)
CallParseHtml ==
    /\ html_calls = <<>>
    /\ \E doc \in HtmlDocuments, px \in {o \in ParserOracles : ~o.fast_raises} :
         html_calls' = <<HtmlCall("parse_html", AsString(doc), <<>>, px,
                                  ParseHtml(doc, settings, px))>>
    /\ UNCHANGED <<settings, env, urlv, langv, text_calls, reads, pipev>>

\* visible_text = extract_text_fast(html_content)
CallExtractTextFast ==
    /\ html_calls = <<>>
    /\ \E doc \in HtmlDocuments, px \in ParserOracles :
         html_calls' = <<HtmlCall("extract_text_fast", AsString(doc), <<>>, px,
                                  ExtractTextFastVia(doc, settings, env, px))>>
    /\ UNCHANGED <<settings, env, urlv, langv, text_calls, reads, pipev>>

\* filter_minimal_html(parsed_html, minimal_text_length)
CallFilterMinimalHtml ==
    /\ html_calls = <<>>
    /\ \E arg \in {AsString(d) : d \in HtmlDocuments}
                  \cup {AsSoup(d) : d \in HtmlDocuments} \cup {NoDocument},
          minimal_text_length \in MinimumArgs, px \in ParserOracles :
         html_calls' = <<HtmlCall("filter_minimal_html", arg, minimal_text_length,
                                  px,
                                  FilterMinimalHtml(arg, minimal_text_length,
                                                    settings, env, px))>>
    /\ UNCHANGED <<settings, env, urlv, langv, text_calls, reads, pipev>>

\* Step 4 of process_record on a normalized payload
CallExtractStep ==
    /\ html_calls = <<>>
    /\ \E doc \in HtmlDocuments, px \in ParserOracles :
         html_calls' = <<HtmlCall("process_record", AsString(doc), <<>>, px,
                                  ExtractStep(doc, settings, env, px))>>
    /\ UNCHANGED <<settings, env, urlv, langv, text_calls, reads, pipev>>

NextHtml ==
    \/ CallParseHtmlFast
    \/ CallParseHtml
    \/ CallExtractTextFast
    \/ CallFilterMinimalHtml
    \/ CallExtractStep

SpecHtml == InitHtml /\ [][NextHtml]_vars

\* -------------------------- decode_and_normalize and fix_text_encoding
MaxTokens == 4

\* The ampersand parts of the texts repaired
EntityTexts == SeqsUpTo({"&", "amp", "lt", ";"}, MaxTokens)

\* The bytes decoded
BytePayloads ==
    {[prefix |-> "<html", nodes |-> <<Node("p", MaxRun)>>, charset |-> cs,
      nfc |-> TRUE, ents |-> e, escapes |-> FALSE] :
       cs \in {"ascii", "utf-8", "cp1252"},
       e \in {<<>>, <<"&", "amp", ";">>}}

\* The strings repaired: an ASCII text is not garbled
RepairTexts ==
    {t \in [prefix : {"<html"}, nodes : {<<Node("p", MaxRun)>>}, nfc : {TRUE},
            ascii : BOOLEAN, garble : {"clean", "mojibake", "replaced"},
            ents : EntityTexts, escapes : BOOLEAN] :
       t.ascii => t.garble = "clean"}

InitText ==
    /\ settings \in
         {[DefaultSettings EXCEPT !.skip_ascii_optimization = skip,
                                  !.confidence_threshold = ct] :
            skip \in BOOLEAN, ct \in {70, 90}}
    /\ env \in {e \in Envs : e.TLDEXTRACT_AVAILABLE /\ e.LINGUA_AVAILABLE
                             /\ e.SELECTOLAX_AVAILABLE}
    /\ url_calls = <<>>
    /\ text = <<>>
    /\ classifiers = NoInput
    /\ lang_calls = <<>>
    /\ html_calls = <<>>
    /\ text_calls = <<>>
    /\ reads = <<>>
    /\ Idle

\* html_payload = decode_and_normalize(payload)
CallDecodeAndNormalize ==
    /\ text_calls = <<>>
    /\ \E payload \in BytePayloads, detection \in ChardetOutcomes :
         text_calls' = <<[fn |-> "decode_and_normalize", arg |-> payload,
                          detection |-> detection,
                          result |-> DecodeAndNormalize(payload, settings, detection)]>>
    /\ UNCHANGED <<settings, env, urlv, langv, html_calls, reads, pipev>>

\* repaired_payload = fix_text_encoding(html_payload)
CallFixTextEncoding ==
    /\ text_calls = <<>>
    /\ \E t \in RepairTexts, ftfy_raises \in BOOLEAN :
         text_calls' = <<[fn |-> "fix_text_encoding", arg |-> t,
                          ftfy_raises |-> ftfy_raises,
                          result |-> FixTextEncodingVia(t, settings, ftfy_raises)]>>
    /\ UNCHANGED <<settings, env, urlv, langv, html_calls, reads, pipev>>

\* fix_text_encoding(fix_text_encoding(text)); ftfy does the same on the
\* same text
CallFixTextEncodingTwice ==
    /\ text_calls = <<>>
    /\ \E t \in RepairTexts, raises1 \in BOOLEAN, raises2 \in BOOLEAN :
         LET once == FixTextEncoding(t, settings, raises1)
         IN  /\ once = t => raises2 = raises1
             /\ text_calls' = <<[fn |-> "fix_text_encoding twice", arg |-> t,
                                 ftfy_raises |-> raises1,
                                 once |-> once,
                                 result |-> FixTextEncoding(once, settings, raises2)]>>
    /\ UNCHANGED <<settings, env, urlv, langv, html_calls, reads, pipev>>

NextText ==
    \/ CallDecodeAndNormalize
    \/ CallFixTextEncoding
    \/ CallFixTextEncodingTwice

SpecText == InitText /\ [][NextText]_vars

\* ------------------------------------------------ the settings object
\* The fields PyRexSettings declares, with their defaults
\* (config/settings.py 27-128); confidence_threshold is in percent
DeclaredSettings ==
    [minimal_text_length |-> 1000,
     preview_text_chars |-> 2000,
     chardet_sample_size |-> 32768,
     html_detection_sample |-> 1024,
     remove_scripts |-> TRUE,
     remove_comments |-> TRUE,
     remove_styles |-> TRUE,
     use_lxml_parser |-> TRUE,
     skip_ascii_optimization |-> FALSE,
     confidence_threshold |-> 70,
     output_mode |-> "console",
     output_directory |-> "output",
     dump_with_html_tags |-> FALSE,
     show_compression_stats |-> TRUE,
     show_processing_stats |-> TRUE,
     verbose_logging |-> FALSE,
     enable_boilerplate_detection |-> FALSE,
     enable_deduplication |-> FALSE]

\* The options read while a record is processed, by the function that
\* reads them
OptionsRead ==
    [parse_and_filter_url |->
       {"enable_url_filtering", "accepted_tlds", "accepted_subdomains",
        "accepted_path_segments", "verbose_logging"},
     decode_and_normalize |-> {"chardet_sample_size", "confidence_threshold"},
     read_warc_file |-> {"html_detection_sample", "output_mode", "verbose_logging"},
     fix_text_encoding |-> {"skip_ascii_optimization"},
     process_record |->
       {"enable_language_filtering", "dump_with_html_tags", "use_fast_parsing"},
     detect_and_filter_languages |->
       {"enable_language_filtering", "accepted_languages",
        "language_detection_chars", "language_confidence_threshold",
        "verbose_logging"},
     parse_html |->
       {"use_lxml_parser", "remove_comments", "remove_scripts", "remove_styles"},
     filter_minimal_html |-> {"minimal_text_length"},
     output_dump |-> {"output_directory", "dump_with_html_tags", "verbose_logging"},
     output_console |->
       {"dump_with_html_tags", "preview_text_chars", "show_processing_stats",
        "show_compression_stats"}]

\* settings.<option>: the object has the attribute when the class declares
\* the field; pydantic raises AttributeError otherwise
HasOption(obj, option) == option \in DOMAIN obj

\* The settings object after import: the declared fields, some of them set
\* by the configuration file or the environment
InitSettings ==
    /\ settings \in
         {[DeclaredSettings EXCEPT !.output_mode = om, !.dump_with_html_tags = tags,
                                   !.verbose_logging = vl, !.use_lxml_parser = lx,
                                   !.skip_ascii_optimization = skip] :
            om \in {"console", "dump"}, tags \in BOOLEAN, vl \in BOOLEAN,
            lx \in BOOLEAN, skip \in BOOLEAN}
    /\ env \in {e \in Envs : e.TLDEXTRACT_AVAILABLE /\ e.LINGUA_AVAILABLE
                             /\ e.SELECTOLAX_AVAILABLE}
    /\ url_calls = <<>>
    /\ text = <<>>
    /\ classifiers = NoInput
    /\ lang_calls = <<>>
    /\ html_calls = <<>>
    /\ text_calls = <<>>
    /\ reads = <<>>
    /\ Idle

\* a function of the pipeline evaluates settings.<option>
ReadOption ==
    /\ reads = <<>>
    /\ \E fn \in DOMAIN OptionsRead :
         \E option \in OptionsRead[fn] :
            reads' = <<[fn |-> fn, option |-> option,
                        raised |-> ~HasOption(settings, option)]>>
    /\ UNCHANGED <<settings, env, urlv, langv, html_calls, text_calls, pipev>>

NextSettings == ReadOption

SpecSettings == InitSettings /\ [][NextSettings]_vars

\* ------------------------------------------------------- read_warc_file
MaxRecords == 2

LongDoc == <<[tag |-> "script", n |-> 6], [tag |-> "p", n |-> 5], [tag |-> "p", n |-> 6]>>
ShortDoc == <<[tag |-> "title", n |-> 12], [tag |-> "p", n |-> 4]>>

\* two paragraphs with a line break between them
SpacedDoc == <<[tag |-> "p", n |-> 5], [tag |-> "space", n |-> 0], [tag |-> "p", n |-> 3]>>

SpacedPayload ==
    [prefix |-> "<p", nodes |-> SpacedDoc, charset |-> "ascii", nfc |-> TRUE,
     ents |-> <<>>, escapes |-> FALSE, px |-> ParsersWork]

\* The payloads of the archive; px is what the parsers do on the document
Payloads ==
    {[prefix |-> " <HTML", nodes |-> LongDoc, charset |-> "utf-8", nfc |-> FALSE,
      ents |-> <<"&", "amp", ";">>, escapes |-> FALSE, px |-> ParsersWork],
     [prefix |-> "<p", nodes |-> LongDoc, charset |-> "ascii", nfc |-> TRUE,
      ents |-> <<>>, escapes |-> TRUE, px |-> FastFails],
     [prefix |-> "<!DOCTYPE html", nodes |-> ShortDoc, charset |-> "cp1252",
      nfc |-> TRUE, ents |-> <<>>, escapes |-> FALSE, px |-> TreeBuildersFail],
     [prefix |-> "", nodes |-> <<>>, charset |-> "ascii", nfc |-> TRUE,
      ents |-> <<>>, escapes |-> FALSE, px |-> ParsersWork]}

EmptyUri == [raw |-> "empty", bad |-> FALSE, host |-> <<>>, path |-> <<>>]

Uri(host) == [raw |-> "text", bad |-> FALSE, host |-> host, path |-> <<>>]

Record(rec_type, target_uri, content_type, payload) ==
    [rec_type |-> rec_type, target_uri |-> target_uri,
     content_type |-> content_type, payload |-> payload]

\* The records an archive may hold: HTML responses of a .de host, responses
\* that do not declare HTML, a request, a .com host and a record without
\* WARC-Target-URI
Records ==
    {Record("response", Uri(<<"www", "DE">>), "text/HTML", p) : p \in Payloads}
    \cup {Record("response", Uri(<<"www", "DE">>), "application/pdf", p) :
            p \in {q \in Payloads : q.nodes # ShortDoc}}
    \cup {Record("request", Uri(<<"www", "DE">>), "text/HTML", p) :
            p \in {q \in Payloads : q.nodes = <<>>}}
    \cup {Record("response", Uri(<<"www", "com">>), "text/HTML", p) :
            p \in {q \in Payloads : q.charset = "utf-8"}}
    \cup {Record("response", EmptyUri, "text/HTML", p) :
            p \in {q \in Payloads : q.charset = "utf-8"}}
    \cup {Record("response", Uri(<<"www", "DE">>), "text/HTML", SpacedPayload)}

\* The stages of the per-record pipeline, in the order of the design
StageOrder ==
    <<"url", "decode", "repair", "normalize", "language", "length", "extract", "deliver">>

Ran(stage, outcome) == [stage |-> stage, outcome |-> outcome]

\* record_data as built for a record (pyrex.py 235-243)
BaseRecordData(r, count) ==
    <<[k |-> "Record #", v |-> count],
      [k |-> "Type", v |-> r.rec_type],
      [k |-> "URI", v |-> r.target_uri],
      [k |-> "Date", v |-> "N/A"],
      [k |-> "Content-Type", v |-> r.content_type],
      [k |-> "Content-Length", v |-> "N/A"],
      [k |-> "Record ID", v |-> "N/A"]>>

\* if tld: / if domain: / if hostname: (pyrex.py 255-260)
Truthy(name) == name # NoName /\ name # <<>>

UrlEntries(r) ==
    (IF Truthy(r.tld) THEN <<[k |-> "TLD", v |-> r.tld]>> ELSE <<>>)
    \o (IF Truthy(r.domain) THEN <<[k |-> "Domain", v |-> r.domain]>> ELSE <<>>)
    \o (IF Truthy(r.hostname) THEN <<[k |-> "Hostname", v |-> r.hostname]>> ELSE <<>>)

\* Where the loop goes after the URL filter (pyrex.py 249-252)
MutAfterUrlFilter(ok) == "type"

AfterUrlFilter(ok) == IF ok THEN "type" ELSE "iter"

\* Only HTML content is processed (pyrex.py 286, 309-310)
MutAfterHtmlDetection(h) == "repair"

AfterHtmlDetection(h) == IF h THEN "repair" ELSE "iter"

\* Where process_record goes after the language step (pyrex.py 171-173)
MutAfterLanguageStep(should_continue) == "length"

AfterLanguageStep(should_continue) == IF should_continue THEN "length" ELSE "output"

\* Where process_record goes after the length filter (pyrex.py 178-180)
MutAfterLengthFilter(ok) == "extract"

AfterLengthFilter(ok) == IF ok THEN "extract" ELSE "output"

\* What process_record returns when it filters the record out
NoneData ==
    [none |-> TRUE, record_data |-> <<>>, original_payload |-> <<>>,
     parsed_html |-> None, visible_text |-> <<>>, detected_language |-> None]

\* the language entry added whatever the settings say
MutWithLanguageEntry(data, detected_language, st) ==
    Append(data, [k |-> "Language", v |-> detected_language])

\* record_data.append(...) at the end of process_record (pyrex.py 198-202):
\* the list of the caller with the language entry
WithLanguageEntry(data, detected_language, st) ==
    IF detected_language # None
    THEN Append(data, [k |-> "Language", v |-> detected_language])
    ELSE IF st.enable_language_filtering
    THEN Append(data, [k |-> "Language", v |-> "unknown"])
    ELSE data

\* gzip.open(warc_file_path, 'rb') (pyrex.py 227-229, 320-325)
OpenArchive ==
    /\ pc = "idle"
    /\ \/ pc' = "iter" /\ UNCHANGED exit_code
       \/ pc' = "exited" /\ exit_code' = <<1>>
    /\ UNCHANGED <<settings, env, urlv, langv, fnv, record_count, recv, handed,
                   dump_file, trace>>

\* for record in ArchiveIterator(f): the next record (pyrex.py 231-243)
NextRecord ==
    /\ pc = "iter"
    /\ record_count < MaxRecords
    /\ \E r \in Records :
         /\ rec' = <<r>>
         /\ record_data' = BaseRecordData(r, record_count + 1)
    /\ record_count' = record_count + 1
    /\ url_check' = <<>>
    /\ html_payload' = <<>>
    /\ is_html' = <<>>
    /\ repaired_payload' = <<>>
    /\ normalized_payload' = <<>>
    /\ lang_check' = <<>>
    /\ length_check' = <<>>
    /\ extracted' = <<>>
    /\ processed_data' = <<>>
    /\ trace' = <<>>
    /\ pc' = "url"
    /\ UNCHANGED <<settings, env, urlv, langv, fnv, handed, dump_file, exit_code>>

\* The archive is exhausted (pyrex.py 314-318)
EndOfArchive ==
    /\ pc = "iter"
    /\ pc' = "finished"
    /\ UNCHANGED <<settings, env, urlv, langv, fnv, record_count, recv, handed,
                   dump_file, trace, exit_code>>

\* Early URL filtering (pyrex.py 245-264)
UrlFilter ==
    /\ pc = "url"
    /\ LET target_uri == rec[1].target_uri
       IN  IF target_uri.raw # "empty"
           THEN \E tldx \in {"ok", "raises"} :
                  LET r == ParseAndFilterUrl(target_uri, settings, env, tldx)
                  IN  /\ url_check' = <<r>>
                      /\ trace' = Append(trace, Ran("url", IF r.ok THEN "pass" ELSE "filtered"))
                      /\ record_data' = IF r.ok THEN record_data \o UrlEntries(r)
                                        ELSE record_data
                      /\ pc' = AfterUrlFilter(r.ok)
           ELSE /\ trace' = Append(trace, Ran("url", "filtered"))
                /\ pc' = "iter"
                /\ UNCHANGED <<url_check, record_data>>
    /\ UNCHANGED <<settings, env, urlv, langv, fnv, record_count, rec, html_payload,
                   is_html, repaired_payload, normalized_payload, lang_check,
                   length_check, extracted, processed_data, handed, dump_file,
                   exit_code>>

\* every record type is processed
MutIsProcessedType(rec_type) == TRUE

\* if record.rec_type == 'response' (pyrex.py 267)
IsProcessedType(rec_type) == rec_type = "response"

\* if record.rec_type == 'response': read and decode the payload
\* (pyrex.py 267-272, 311-312); reading the content stream may raise, which
\* ends the run (pyrex.py 323-325)
ReadAndDecode ==
    /\ pc = "type"
    /\ IF IsProcessedType(rec[1].rec_type)
       THEN \/ \E detection \in ChardetOutcomes :
                 /\ html_payload' =
                      <<DecodeAndNormalize(rec[1].payload, settings, detection)>>
                 /\ trace' = Append(trace, Ran("decode", "pass"))
                 /\ pc' = "html"
                 /\ UNCHANGED exit_code
            \/ /\ pc' = "exited"
               /\ exit_code' = <<1>>
               /\ UNCHANGED <<html_payload, trace>>
       ELSE /\ pc' = "iter"
            /\ UNCHANGED <<html_payload, trace, exit_code>>
    /\ UNCHANGED <<settings, env, urlv, langv, fnv, record_count, rec, record_data,
                   url_check, is_html, repaired_payload, normalized_payload,
                   lang_check, length_check, extracted, processed_data, handed,
                   dump_file>>

\* is_html (pyrex.py 275-284, 309-310)
DetectHtml ==
    /\ pc = "html"
    /\ LET h == IsHtml(rec[1].content_type, html_payload[1])
       IN  /\ is_html' = <<h>>
           /\ pc' = AfterHtmlDetection(h)
    /\ UNCHANGED <<settings, env, urlv, langv, fnv, record_count, rec, record_data,
                   url_check, html_payload, repaired_payload, normalized_payload,
                   lang_check, length_check, extracted, processed_data, handed,
                   dump_file, trace, exit_code>>

\* process_record step 1 (pyrex.py 149)
Repair ==
    /\ pc = "repair"
    /\ \E ftfy_raises \in BOOLEAN :
         repaired_payload' = <<FixTextEncoding(html_payload[1], settings, ftfy_raises)>>
    /\ trace' = Append(trace, Ran("repair", "pass"))
    /\ pc' = "normalize"
    /\ UNCHANGED <<settings, env, urlv, langv, fnv, record_count, rec, record_data,
                   url_check, html_payload, is_html, normalized_payload,
                   lang_check, length_check, extracted, processed_data, handed,
                   dump_file, exit_code>>

\* process_record step 2 (pyrex.py 152)
Normalize ==
    /\ pc = "normalize"
    /\ normalized_payload' = <<NormalizeNFC(repaired_payload[1])>>
    /\ trace' = Append(trace, Ran("normalize", "pass"))
    /\ pc' = "language"
    /\ UNCHANGED <<settings, env, urlv, langv, fnv, record_count, rec, record_data,
                   url_check, html_payload, is_html, repaired_payload,
                   lang_check, length_check, extracted, processed_data, handed,
                   dump_file, exit_code>>

\* process_record step 3 (pyrex.py 156-175)
LanguageStep ==
    /\ pc = "language"
    /\ IF settings.enable_language_filtering
       THEN \E lingua \in LinguaOutcomes, langid \in LangidOutcomes :
              LET quick_text == QuickText(normalized_payload[1], settings, env,
                                          rec[1].payload.px)
                  r == DetectAndFilterLanguages(quick_text, settings, env,
                                                lingua, langid)
              IN  /\ lingua.kind = "ok" => lingua.lang \in AllLanguages(settings)
                  /\ lang_check' = <<r>>
                  /\ trace' = Append(trace, Ran("language",
                                  IF r.accepted THEN "pass" ELSE "filtered"))
                  /\ processed_data' = IF r.accepted THEN processed_data
                                       ELSE <<NoneData>>
                  /\ pc' = AfterLanguageStep(r.accepted)
       ELSE /\ lang_check' = <<LangResult(TRUE, None, "not_run", "not_run")>>
            /\ trace' = Append(trace, Ran("language", "pass"))
            /\ pc' = "length"
            /\ UNCHANGED processed_data
    /\ UNCHANGED <<settings, env, urlv, langv, fnv, record_count, rec, record_data,
                   url_check, html_payload, is_html, repaired_payload,
                   normalized_payload, length_check, extracted, handed,
                   dump_file, exit_code>>

\* process_record step 3.5 (pyrex.py 178-180)
LengthFilter ==
    /\ pc = "length"
    /\ LET ok == FilterMinimalHtml(AsString(normalized_payload[1]), <<>>,
                                   settings, env, rec[1].payload.px)
       IN  /\ length_check' = <<ok>>
           /\ trace' = Append(trace, Ran("length", IF ok THEN "pass" ELSE "filtered"))
           /\ processed_data' = IF ok THEN processed_data ELSE <<NoneData>>
           /\ pc' = AfterLengthFilter(ok)
    /\ UNCHANGED <<settings, env, urlv, langv, fnv, record_count, rec, record_data,
                   url_check, html_payload, is_html, repaired_payload,
                   normalized_payload, lang_check, extracted, handed, dump_file,
                   exit_code>>

\* process_record step 4 (pyrex.py 183-196)
Extract ==
    /\ pc = "extract"
    /\ extracted' = <<ExtractStep(normalized_payload[1], settings, env,
                               rec[1].payload.px)>>
    /\ trace' = Append(trace, Ran("extract", "pass"))
    /\ pc' = "return"
    /\ UNCHANGED <<settings, env, urlv, langv, fnv, record_count, rec, record_data,
                   url_check, html_payload, is_html, repaired_payload,
                   normalized_payload, lang_check, length_check, processed_data,
                   handed, dump_file, exit_code>>

\* The end of process_record: the language entry and the result
\* (pyrex.py 198-215)
ReturnResult ==
    /\ pc = "return"
    /\ LET detected_language == lang_check[1].detected
           new_data == WithLanguageEntry(record_data, detected_language, settings)
       IN  /\ record_data' = new_data
           /\ processed_data' =
                <<[none |-> FALSE, record_data |-> new_data,
                   original_payload |-> html_payload[1],
                   parsed_html |-> extracted[1].parsed_html,
                   visible_text |-> extracted[1].visible_text,
                   detected_language |-> detected_language]>>
    /\ pc' = "output"
    /\ UNCHANGED <<settings, env, urlv, langv, fnv, record_count, rec, url_check,
                   html_payload, is_html, repaired_payload, normalized_payload,
                   lang_check, length_check, extracted, handed, dump_file,
                   trace, exit_code>>

\* processed_data is None: the record is skipped (pyrex.py 307-308)
SkipFiltered ==
    /\ pc = "output"
    /\ processed_data[1].none
    /\ pc' = "iter"
    /\ UNCHANGED <<settings, env, urlv, langv, fnv, record_count, recv, handed,
                   dump_file, trace, exit_code>>

\* What happens to the block output_dump writes: all of it is written, the
\* write raises midway, or creating the directory or opening the file raises
WriteOutcomes == {"written", "partial", "failed"}

\* the file opened for writing whether or not it exists
MutOpenMode(exists) == "wt"

\* mode = 'at' if output_file.exists() else 'wt' (pyrex_output.py 72)
OpenMode(exists) == IF exists THEN "at" ELSE "wt"

\* The output file after the block was written to it (pyrex_output.py
\* 71-87): an empty sequence of blocks is the file that does not exist
WriteBlock(file, block, outcome) ==
    IF outcome = "failed" THEN file
    ELSE LET written == [block EXCEPT !.complete = (outcome = "written")]
         IN  IF OpenMode(file # <<>>) = "at" THEN Append(file, written)
             ELSE <<written>>

\* the exception of a write leaving output_dump
MutAfterOutputDump(outcome) == IF outcome = "written" THEN "iter" ELSE "exited"

\* except Exception: the error is printed and output_dump returns
\* (pyrex_output.py 94-96), the loop goes on
AfterOutputDump(outcome) == "iter"

\* output_dump(...) (pyrex.py 291-298, pyrex_output.py 54-96); a failure
\* to create the directory, open the file or write is caught and logged
OutputDump ==
    /\ pc = "output"
    /\ ~processed_data[1].none
    /\ settings.output_mode = "dump"
    /\ trace' = Append(trace, Ran("deliver", "pass"))
    /\ \E outcome \in WriteOutcomes :
         /\ handed' = Append(handed, [record |-> record_count, sink |-> "dump",
                                      outcome |-> outcome])
         /\ dump_file' =
              WriteBlock(dump_file,
                         [record |-> record_count,
                          record_data |-> processed_data[1].record_data,
                          content |-> IF settings.dump_with_html_tags
                                      THEN "html" ELSE "text",
                          complete |-> TRUE],
                         outcome)
         /\ pc' = AfterOutputDump(outcome)
    /\ UNCHANGED <<settings, env, urlv, langv, fnv, record_count, recv, exit_code>>

\* len(normalized_payload): the characters of the payload, entities included
PayloadLength(txt) == Len(RawText(txt)) + Len(txt.ents)

\* len(visible_text)/len(normalized_payload) in percent (pyrex_output.py
\* 136); <<>> stands for the ZeroDivisionError of an empty payload
CompressionRatio(visible_text, payload) ==
    IF PayloadLength(payload) = 0 THEN <<>>
    ELSE <<(Len(visible_text) * 100) \div PayloadLength(payload)>>

\* Whether output_console gets past its statistics
ConsoleOutcome(visible_text, payload, st) ==
    IF st.show_compression_stats /\ CompressionRatio(visible_text, payload) = <<>>
    THEN "raised" ELSE "shown"

\* output_console(...) (pyrex.py 299-306, pyrex_output.py 109-145); Ctrl+C
\* at the prompt exits with 0, an exception of the statistics or of input()
\* ends the run with 1
OutputConsole ==
    /\ pc = "output"
    /\ ~processed_data[1].none
    /\ settings.output_mode # "dump"
    /\ LET outcome == ConsoleOutcome(processed_data[1].visible_text,
                                     normalized_payload[1], settings)
       IN  /\ handed' = Append(handed, [record |-> record_count,
                                        sink |-> "console", outcome |-> outcome])
           /\ trace' = Append(trace, Ran("deliver", "pass"))
           /\ IF outcome = "raised"
              THEN pc' = "exited" /\ exit_code' = <<1>>
              ELSE \/ pc' = "iter" /\ UNCHANGED exit_code
                   \/ pc' = "exited" /\ exit_code' = <<0>>
                   \/ pc' = "exited" /\ exit_code' = <<1>>
    /\ UNCHANGED <<settings, env, urlv, langv, fnv, record_count, recv, dump_file>>

Init ==
    /\ settings \in
         {[DefaultSettings EXCEPT !.enable_url_filtering = uf,
                                  !.enable_language_filtering = lf,
                                  !.output_mode = om,
                                  !.dump_with_html_tags = tags] :
            uf \in BOOLEAN, lf \in BOOLEAN, om \in {"console", "dump"},
            tags \in BOOLEAN}
         \cup {[DefaultSettings EXCEPT !.enable_url_filtering = uf,
                                       !.enable_language_filtering = lf,
                                       !.minimal_text_length =
                                           LeastMinimalTextLength] :
                 uf \in BOOLEAN, lf \in BOOLEAN}
    /\ env \in Envs
    /\ url_calls = <<>>
    /\ text = <<>>
    /\ classifiers = NoInput
    /\ lang_calls = <<>>
    /\ html_calls = <<>>
    /\ text_calls = <<>>
    /\ reads = <<>>
    /\ Idle

Next ==
    \/ OpenArchive
    \/ NextRecord
    \/ EndOfArchive
    \/ UrlFilter
    \/ ReadAndDecode
    \/ DetectHtml
    \/ Repair
    \/ Normalize
    \/ LanguageStep
    \/ LengthFilter
    \/ Extract
    \/ ReturnResult
    \/ SkipFiltered
    \/ OutputDump
    \/ OutputConsole

Spec == Init /\ [][Next]_vars

\* ================================================================ claims

\* ------------------------------------------------------------ the pipeline
\* The record of the current iteration was handed to an output sink
Delivered == \E i \in DOMAIN handed : handed[i].record = record_count

StagesRun == [i \in DOMAIN trace |-> trace[i].stage]

\* C1: for every record the stages run in the order URL check, byte decode,
\* repair, NFC normalisation, language check, length check, extraction,
\* delivery, and a stage starts only when every earlier stage has completed
\* for that record without filtering it; what a stage leaves behind exists
\* exactly when the stage has run.
Thm_C1_StagesInOrder ==
    /\ Len(trace) <= Len(StageOrder)
    /\ StagesRun = SubSeq(StageOrder, 1, Len(trace))
    /\ \A i \in DOMAIN trace : i < Len(trace) => trace[i].outcome = "pass"
    /\ (html_payload # <<>>) = (Len(trace) >= 2)
    /\ (repaired_payload # <<>>) = (Len(trace) >= 3)
    /\ (normalized_payload # <<>>) = (Len(trace) >= 4)
    /\ (lang_check # <<>>) = (Len(trace) >= 5)
    /\ (length_check # <<>>) = (Len(trace) >= 6)
    /\ (extracted # <<>>) = (Len(trace) >= 7)
    /\ (record_count > 0 /\ Delivered) = (Len(trace) >= 8)

\* A record went through all eight stages and the loop is back at its head
Wit_C1_AllStagesRan ==
    /\ pc = "iter"
    /\ Len(trace) = 8
    /\ trace[8] = Ran("deliver", "pass")
    /\ settings.enable_url_filtering
    /\ settings.enable_language_filtering

\* C2: a record is handed to a sink only if its URL was accepted, its type
\* is 'response', it was detected as HTML and process_record returned a
\* result (language and length checks passed); a record for which
\* process_record returned a result is handed to the one sink the output
\* mode selects, and no record is handed over twice.
Thm_C2_DeliveredOnlyAfterAllFilters ==
    /\ \A i, j \in DOMAIN handed : handed[i].record = handed[j].record => i = j
    /\ \A i \in DOMAIN handed :
         /\ handed[i].record \in 1..record_count
         /\ handed[i].sink = IF settings.output_mode = "dump" THEN "dump"
                             ELSE "console"
    /\ (record_count > 0 /\ Delivered) =>
         /\ url_check # <<>> /\ url_check[1].ok
         /\ rec[1].rec_type = "response"
         /\ is_html = <<TRUE>>
         /\ processed_data # <<>> /\ ~processed_data[1].none
         /\ lang_check # <<>> /\ lang_check[1].accepted
         /\ length_check = <<TRUE>>
    /\ (processed_data # <<>> /\ ~processed_data[1].none /\ pc # "output")
         => Delivered

\* Two records were written by output_dump, one after the other
Wit_C2_TwoRecordsDumped ==
    /\ pc = "iter"
    /\ Len(handed) = 2
    /\ handed[1].record = 1 /\ handed[1].sink = "dump"
    /\ handed[2].record = 2 /\ handed[2].sink = "dump"
    /\ Len(dump_file) = 2
    /\ settings.enable_url_filtering
    /\ url_check[1].ok

LanguageRejected ==
    /\ settings.enable_language_filtering
    /\ lang_check # <<>>
    /\ ~lang_check[1].accepted

\* C3: when language filtering is enabled and the language check rejects the
\* record's text, process_record returns None at the language stage: the
\* length filter is not evaluated, step 4 does not run and nothing is
\* delivered for the record.
Thm_C3_LanguageRejectionStopsRecord ==
    LanguageRejected =>
        /\ processed_data = <<NoneData>>
        /\ length_check = <<>>
        /\ extracted = <<>>
        /\ ~Delivered
        /\ trace[Len(trace)] = Ran("language", "filtered")
        /\ pc \in {"output", "iter", "finished"}

\* A document in a language that is not accepted was dropped
Wit_C3_ForeignLanguageSkipped ==
    /\ LanguageRejected
    /\ lang_check[1].detected = "en"
    /\ pc = "iter"
    /\ handed = <<>>

\* ---------------------------------------------------------------- C8
UrlHasHost(url) == url.raw = "text" /\ ~url.bad /\ url.host # <<>>

NameEqCI(a, b) == LowerName(a) = LowerName(b)

\* the three checks of the claim, stated on the call's URL, the settings
\* and the components the function reports
TldCheck(c) ==
    /\ c.result.tld # <<>>
    /\ \E a \in c.settings.accepted_tlds : NameEqCI(a, c.result.tld)
SubdomainCheck(c) ==
    /\ c.result.subdomain # <<>>
    /\ \E a \in c.settings.accepted_subdomains : NameEqCI(a, c.result.subdomain)
PathCheck(c) ==
    \E i \in DOMAIN c.url.path :
        /\ Strip(c.url.path[i]) # ""
        /\ \E a \in c.settings.accepted_path_segments :
              Lower(a) = Lower(Strip(c.url.path[i]))

\* C8: with URL filtering enabled and a URL that has a host,
\* parse_and_filter_url accepts if and only if the TLD is in the accepted
\* TLDs, or the subdomain is in the accepted subdomains, or some non-empty
\* (whitespace-trimmed) path segment is an accepted path segment, all
\* compared case-insensitively; one check alone suffices, none rejects.
Thm_C8_UrlOrSemantics ==
    \A i \in DOMAIN url_calls :
        LET c == url_calls[i]
        IN  (c.settings.enable_url_filtering /\ UrlHasHost(c.url))
            => (c.result.ok <=> (TldCheck(c) \/ SubdomainCheck(c) \/ PathCheck(c)))

\* a URL with a host that satisfies the path check alone is accepted
Wit_C8_PathOnlyAccepted ==
    \E i \in DOMAIN url_calls :
        LET c == url_calls[i]
        IN  /\ c.settings.enable_url_filtering /\ UrlHasHost(c.url)
            /\ PathCheck(c) /\ ~TldCheck(c) /\ ~SubdomainCheck(c)
            /\ c.result.ok

\* ---------------------------------------------------------------- C9
NoComponents(r) == r.tld = NoName /\ r.domain = NoName /\ r.hostname = NoName

\* C9: with URL filtering disabled parse_and_filter_url returns
\* (True, None, None, None) for every input, the empty and host-less URLs
\* included, and does not parse the URL.
Thm_C9_DisabledAcceptsAll ==
    \A i \in DOMAIN url_calls :
        LET c == url_calls[i]
        IN  ~c.settings.enable_url_filtering
            => (c.result.ok /\ NoComponents(c.result) /\ ~c.result.parsed)

\* filtering is disabled and the function was called on the empty URL
Wit_C9_DisabledEmptyUrl ==
    \E i \in DOMAIN url_calls :
        /\ ~url_calls[i].settings.enable_url_filtering
        /\ url_calls[i].url.raw = "empty"
        /\ url_calls[i].result.ok

\* --------------------------------------------------------------- C10
UnusableUrl(url) == url.raw \in {"empty", "blank"} \/ url.bad \/ url.host = <<>>

RejectedNoComponents(r) == ~r.ok /\ NoComponents(r)

\* C10 as claimed: with URL filtering enabled, an empty, whitespace-only,
\* unparseable or host-less URL is rejected with no components, and any
\* exception raised inside the function while parsing yields the same
\* rejecting result.
Cex_C10_AnyExceptionRejects ==
    \A i \in DOMAIN url_calls :
        LET c == url_calls[i]
        IN  (c.settings.enable_url_filtering
             /\ (UnusableUrl(c.url) \/ c.result.caught # "none"))
            => RejectedNoComponents(c.result)

\* C10 as amended: with URL filtering enabled, an empty, whitespace-only,
\* unparseable or host-less URL is rejected with no components, and an
\* exception of urlparse yields the same rejecting result; an exception of
\* tldextract is caught as well but is answered by the manual split of the
\* host, after which the URL is classified as usual.
Thm_C10_UnusableUrlRejected ==
    \A i \in DOMAIN url_calls :
        LET c == url_calls[i]
        IN  c.settings.enable_url_filtering
            => /\ (UnusableUrl(c.url) \/ c.result.caught = "urlparse")
                     => RejectedNoComponents(c.result)
               /\ (c.result.caught = "tldextract")
                     => /\ c.result.tld = ManualParse(LowerName(c.url.host)).tld
                        /\ c.result.hostname = LowerName(c.url.host)

\* filtering is enabled and urlparse raised on the URL
Wit_C10_UrlparseRaised ==
    \E i \in DOMAIN url_calls :
        /\ url_calls[i].settings.enable_url_filtering
        /\ url_calls[i].url.bad
        /\ url_calls[i].result.caught = "urlparse"
        /\ RejectedNoComponents(url_calls[i].result)

\* ---------------------------------------------------------------- C4
\* C4 as claimed: for a fixed text, fixed accepted languages and fixed
\* classifier outputs, a text accepted at a threshold is accepted at every
\* lower threshold: of two successive calls on the same text, the one at
\* the higher threshold accepts only if the one at the lower threshold does.
Cex_C4_ThresholdMonotone ==
    Len(lang_calls) = 2
    => LET a == lang_calls[1]
           b == lang_calls[2]
       IN  /\ a.threshold <= b.threshold => (b.result.accepted => a.result.accepted)
           /\ b.threshold <= a.threshold => (a.result.accepted => b.result.accepted)

\* ---------------------------------------------------------------- C5
\* the top candidate of lingua is below the threshold of the call
BelowThreshold(c) ==
    classifiers.lingua.kind = "ok" /\ classifiers.lingua.conf < c.threshold

\* C5 as claimed: langid is consulted only if lingua is unavailable or
\* raised; whenever lingua ran to completion, also with its top candidate
\* below the threshold, langid is not consulted and nothing is detected.
Cex_C5_FallbackOnlyOnFailure ==
    \A i \in DOMAIN lang_calls :
        LET c == lang_calls[i]
        IN  /\ c.result.langid # "not_run"
                 => c.result.lingua \in {"unavailable", "raised"}
            /\ (c.result.lingua = "ran" /\ BelowThreshold(c))
                 => c.result.detected = None

\* ---------------------------------------------------------------- C6
\* some classifier that was consulted gave a confident answer
LinguaConfident(c) ==
    /\ env.LINGUA_AVAILABLE
    /\ classifiers.lingua.kind = "ok"
    /\ classifiers.lingua.conf >= c.threshold
LangidConfident(c) ==
    /\ classifiers.langid.kind = "ok"
    /\ classifiers.langid.conf > LangidBar

\* C6: with language filtering enabled, detect_and_filter_languages accepts
\* only if a language was detected and that language is, case-insensitively,
\* one of the accepted languages; when no classifier gives a confident
\* detection the result is (False, None).
Thm_C6_AcceptNeedsAcceptedLanguage ==
    \A i \in DOMAIN lang_calls :
        LET c == lang_calls[i]
        IN  settings.enable_language_filtering
            => /\ c.result.accepted
                    => /\ c.result.detected # None
                       /\ \E a \in settings.accepted_languages :
                             LowerCode(a) = LowerCode(c.result.detected)
               /\ (~LinguaConfident(c) /\ ~LangidConfident(c))
                    => (~c.result.accepted /\ c.result.detected = None)

\* a text was accepted on a detected language that is in the accepted list
\* in another case
Wit_C6_AcceptedCaseInsensitive ==
    \E i \in DOMAIN lang_calls :
        /\ settings.enable_language_filtering
        /\ lang_calls[i].result.accepted
        /\ lang_calls[i].result.detected \notin settings.accepted_languages

\* ---------------------------------------------------------------- C7
SampleLen == Len(StripText(Take(text, settings.language_detection_chars)))

\* C7: with language filtering enabled, a text whose sample (truncated to
\* language_detection_chars, then stripped) is shorter than 10 characters
\* is rejected with no detected language and no classifier is run; a sample
\* of exactly 10 characters passes the floor and reaches the classifiers.
Thm_C7_MinimumSampleLength ==
    \A i \in DOMAIN lang_calls :
        LET c == lang_calls[i]
        IN  settings.enable_language_filtering
            => /\ SampleLen < 10
                    => /\ ~c.result.accepted /\ c.result.detected = None
                       /\ c.result.lingua = "not_run" /\ c.result.langid = "not_run"
               /\ SampleLen = 10 => c.result.lingua # "not_run"

\* a text of more than 10 characters whose sample is cut to 10 characters
\* was accepted
Wit_C7_SampleOfExactlyTen ==
    \E i \in DOMAIN lang_calls :
        /\ settings.enable_language_filtering
        /\ Len(text) > 10 /\ SampleLen = 10
        /\ lang_calls[i].result.accepted

\* --------------------------------------------------------------- C11
CallsOf(fn) == {i \in DOMAIN html_calls : html_calls[i].fn = fn}

\* the visible text filter_minimal_html measures in a call
MeasuredText(c) ==
    IF c.arg.kind = "str" THEN ExtractTextFast(c.arg.doc, settings, env, c.px)
    ELSE ParseHtml(c.arg.doc, settings, c.px).text

\* the minimum of a call: the argument if one is given, else the setting
MinimumOf(c) ==
    IF c.minimal_text_length = <<>> THEN settings.minimal_text_length
    ELSE c.minimal_text_length[1]

\* C11: filter_minimal_html accepts a document if and only if the number of
\* characters of its extracted visible text is at least the minimum, which
\* is the explicit argument when one is given and minimal_text_length
\* otherwise; when the text cannot be extracted it rejects.
Thm_C11_LengthFilterBoundary ==
    \A i \in CallsOf("filter_minimal_html") :
        LET c == html_calls[i]
        IN  IF c.arg.kind = "other" THEN c.result = FALSE
            ELSE c.result = (Len(MeasuredText(c)) >= MinimumOf(c))

\* a text of exactly the explicitly given minimum passed the filter
Wit_C11_ExactlyTheMinimumPasses ==
    \E i \in CallsOf("filter_minimal_html") :
        LET c == html_calls[i]
        IN  /\ c.arg.kind = "str"
            /\ c.minimal_text_length # <<>>
            /\ c.minimal_text_length[1] > 0
            /\ Len(MeasuredText(c)) = c.minimal_text_length[1]
            /\ c.result = TRUE

\* --------------------------------------------------------------- C12
\* C12 as claimed: in step 4 of process_record the fast strategy is used if
\* and only if dump_with_html_tags is false and selectolax is available; in
\* every other case the full strategy is used.
Cex_C12_FastUnlessStructureOrUnavailable ==
    \A i \in CallsOf("process_record") :
        LET c == html_calls[i]
        IN  /\ c.result.strategy \in {"fast", "full"}
            /\ (c.result.strategy = "fast")
                 = (~settings.dump_with_html_tags /\ env.SELECTOLAX_AVAILABLE)

\* C12 as amended: in step 4 of process_record the fast strategy is used if
\* and only if dump_with_html_tags is false, use_fast_parsing is true and
\* selectolax is available; in every other case the full strategy is used;
\* the fast strategy hands a document on which its parser raises to the
\* full strategy.
Thm_C12_FastNeedsFastParsingEnabled ==
    \A i \in CallsOf("process_record") :
        LET c == html_calls[i]
        IN  /\ c.result.strategy \in {"fast", "full"}
            /\ (c.result.strategy = "fast")
                 = (/\ ~settings.dump_with_html_tags
                    /\ settings.use_fast_parsing
                    /\ env.SELECTOLAX_AVAILABLE)
            /\ (c.result.engine = "fast")
                 = (c.result.strategy = "fast" /\ ~c.px.fast_raises)

\* fast parsing is switched off, nothing else asks for the full strategy,
\* and step 4 took the full strategy
Wit_C12_FastParsingSwitchedOff ==
    \E i \in CallsOf("process_record") :
        /\ ~settings.dump_with_html_tags
        /\ ~settings.use_fast_parsing
        /\ env.SELECTOLAX_AVAILABLE
        /\ html_calls[i].result.strategy = "full"
        /\ html_calls[i].result.engine = "preferred"

\* --------------------------------------------------------------- C13
\* C13 as claimed: the structure (parsed_html) of a result of process_record
\* is populated only when dump_with_html_tags is true; when it is false the
\* structure is None.
Cex_C13_StructureOnlyWhenRequested ==
    \A i \in CallsOf("process_record") :
        (html_calls[i].result.parsed_html # None) => settings.dump_with_html_tags

\* C13 as amended: the structure of a result of process_record is populated
\* exactly when step 4 took the full strategy, that is when
\* dump_with_html_tags is true, or use_fast_parsing is false, or selectolax
\* is not available; it is populated whenever structural output is
\* requested, and None after the fast strategy.
Thm_C13_StructureIffFullStrategy ==
    \A i \in CallsOf("process_record") :
        LET c == html_calls[i]
        IN  /\ (c.result.parsed_html # None)
                 = (\/ settings.dump_with_html_tags
                    \/ ~settings.use_fast_parsing
                    \/ ~env.SELECTOLAX_AVAILABLE)
            /\ settings.dump_with_html_tags => c.result.parsed_html # None
            /\ c.result.strategy = "fast" => c.result.parsed_html = None

\* structural output is not requested and selectolax is missing: the result
\* carries the structure of the full strategy
Wit_C13_StructureWithoutRequest ==
    \E i \in CallsOf("process_record") :
        /\ ~settings.dump_with_html_tags
        /\ settings.use_fast_parsing
        /\ ~env.SELECTOLAX_AVAILABLE
        /\ html_calls[i].result.parsed_html = "soup"

\* --------------------------------------------------------------- C14
\* the rule set of the claim
ClaimedRemovals ==
    (IF settings.remove_scripts THEN {"script"} ELSE {})
    \cup (IF settings.remove_styles THEN {"style"} ELSE {})
    \cup (IF settings.remove_comments THEN {"comment"} ELSE {})
    \cup {"meta", "link", "title", "base"}

\* C14 as claimed: the fast and the full strategy apply the same removal
\* rules under every combination of remove_scripts, remove_styles and
\* remove_comments: the tree either of them returns has lost its script
\* elements iff remove_scripts, its style elements iff remove_styles, its
\* comments iff remove_comments, and always meta, link, title and base.
Cex_C14_SameRemovalRules ==
    /\ \A i \in CallsOf("parse_html_fast") :
         LET c == html_calls[i]
         IN  ~c.result.raised
             => c.result.tree = Kept(c.arg.doc.nodes, ClaimedRemovals)
    /\ \A i \in CallsOf("parse_html") :
         LET c == html_calls[i]
         IN  c.result.how # "wrapped"
             => c.result.tree = Kept(c.arg.doc.nodes, ClaimedRemovals)

\* --------------------------------------------------------------- C15
\* the fallback chain of the claim
Chain == <<"fast", "preferred", "lenient", "wrapped">>

Pos(step) == CHOOSE k \in DOMAIN Chain : Chain[k] = step

\* a step of the chain did not produce the document
Failed(step, px) ==
    CASE step = "fast" -> px.fast_raises
      [] step = "preferred" -> px.preferred_raises \/ px.clean_raises
      [] step = "lenient" -> px.lenient_raises \/ px.clean_raises
      [] OTHER -> FALSE

\* the steps were tried in the order of the chain, each after the failure
\* of the one tried before it, and the last one produced the result
OrderedFallback(tried, px, first) ==
    /\ tried # <<>>
    /\ tried[1] = first
    /\ \A j \in DOMAIN tried : tried[j] \in {"fast", "preferred", "lenient", "wrapped"}
    /\ \A j \in 1..(Len(tried) - 1) :
         /\ Pos(tried[j]) < Pos(tried[j + 1])
         /\ Failed(tried[j], px)
    /\ ~Failed(tried[Len(tried)], px)
    /\ (\E j \in DOMAIN tried : tried[j] = "lenient")
         = (px.preferred_raises /\ \E j \in DOMAIN tried : tried[j] = "preferred")

\* C15: extraction always produces a result through the ordered chain fast
\* strategy, full strategy with the preferred parser, full strategy with
\* html.parser, raw text wrapped as an escaped body, a step being tried only
\* after the step tried before it failed; extract_text_fast and parse_html
\* return a value for every document and every failure of the parsers.
Thm_C15_OrderedFallbackChain ==
    /\ \A i \in CallsOf("extract_text_fast") :
         LET c == html_calls[i]
         IN  /\ OrderedFallback(c.result.tried, c.px,
                                IF env.SELECTOLAX_AVAILABLE THEN "fast"
                                ELSE "preferred")
             /\ c.result.text =
                  (IF Last(c.result.tried) = "wrapped" THEN RawText(c.arg.doc)
                   ELSE IF Last(c.result.tried) = "fast"
                   THEN VisibleTextFast(c.arg.doc, settings)
                   ELSE JoinText(c.arg.doc.nodes, ElementsToRemoveFull(settings)))
    /\ \A i \in CallsOf("parse_html") :
         LET c == html_calls[i]
         IN  /\ OrderedFallback(c.result.tried, c.px, "preferred")
             /\ c.result.how = Last(c.result.tried)
             /\ c.result.how = "wrapped" => c.result.text = RawText(c.arg.doc)

\* every step of the chain was tried and the escaped raw text is the result
Wit_C15_WholeChainTried ==
    \E i \in CallsOf("extract_text_fast") :
        /\ html_calls[i].result.tried = Chain
        /\ html_calls[i].result.text = RawText(html_calls[i].arg.doc)
        /\ html_calls[i].arg.doc.nodes # <<>>


\* --------------------------------------------------------------- C16
TextCallsOf(fn) == {i \in DOMAIN text_calls : text_calls[i].fn = fn}

\* the codec the claim names for a detection
ClaimedCodec(detection) ==
    IF detection.encoding # None
       /\ detection.confidence >= settings.confidence_threshold
       /\ detection.encoding \in KnownCodecs
    THEN detection.encoding
    ELSE "utf-8"

\* C16: decode_and_normalize always returns a string: the payload decoded
\* with the detected encoding exactly when an encoding is reported with a
\* confidence of at least confidence_threshold and Python knows it, with
\* UTF-8 otherwise, undecodable bytes being replaced.
Thm_C16_DetectedEncodingOrUtf8 ==
    \A i \in TextCallsOf("decode_and_normalize") :
        LET c == text_calls[i]
        IN  /\ c.result = Decode(c.arg, ClaimedCodec(c.detection))
            /\ c.result.garble \in {"clean", "mojibake", "replaced"}
            /\ (c.arg.charset = "cp1252" /\ ClaimedCodec(c.detection) = "utf-8")
                 => c.result.garble = "replaced"

\* a detection exactly at the threshold is used, and the bytes decode
Wit_C16_ConfidenceAtThreshold ==
    \E i \in TextCallsOf("decode_and_normalize") :
        LET c == text_calls[i]
        IN  /\ c.detection.confidence = settings.confidence_threshold
            /\ c.detection.encoding = "cp1252"
            /\ c.arg.charset = "cp1252"
            /\ c.result.garble = "clean"

\* --------------------------------------------------------------- C17
\* C17: fix_text_encoding returns its input unchanged, without running the
\* repair, when the text is ASCII without '&' and skip_ascii_optimization
\* is false; with skip_ascii_optimization true the repair runs on such a
\* text too; when the repair raises, the input is returned.
Thm_C17_AsciiFastPath ==
    \A i \in TextCallsOf("fix_text_encoding") :
        LET c == text_calls[i]
            plain == c.arg.ascii /\ ~HasAmpersand(c.arg.ents)
        IN  /\ (plain /\ ~settings.skip_ascii_optimization)
                 => (c.result.path = "unchanged" /\ c.result.text = c.arg)
            /\ (plain /\ settings.skip_ascii_optimization)
                 => /\ c.result.path # "unchanged"
                    /\ ~c.ftfy_raises
                         => (c.result.path = "repaired" /\ ~c.result.text.escapes)
            /\ (c.ftfy_raises /\ c.result.path # "unchanged")
                 => (c.result.path = "failed" /\ c.result.text = c.arg)

\* the repair ran on an ASCII text without '&' and changed it
Wit_C17_RepairRunsOnAscii ==
    \E i \in TextCallsOf("fix_text_encoding") :
        LET c == text_calls[i]
        IN  /\ settings.skip_ascii_optimization
            /\ c.arg.ascii /\ ~HasAmpersand(c.arg.ents) /\ c.arg.escapes
            /\ c.result.path = "repaired"
            /\ c.result.text # c.arg

\* --------------------------------------------------------------- C18
\* C18: the repair is idempotent: repairing a repaired text changes nothing,
\* whatever entities, nested or partially escaped, the text holds.
Cex_C18_RepairIdempotent ==
    \A i \in TextCallsOf("fix_text_encoding twice") :
        text_calls[i].result = text_calls[i].once


\* --------------------------------------------------------------- C19
BaseKeys ==
    <<"Record #", "Type", "URI", "Date", "Content-Type", "Content-Length",
      "Record ID">>

KeysOf(data) == [i \in DOMAIN data |-> data[i].k]

\* the entries of a list after the seven base entries
AfterBase(data) == SubSeq(data, Len(BaseKeys) + 1, Len(data))

\* the bundle process_record returned is about to be handed to the output
BundleReady == pc = "output" /\ processed_data # <<>> /\ ~processed_data[1].none

\* the entries the claim names after the base entries, for the components
\* the URL filter returned and the language detected
ClaimedTail(u, detected) ==
    (IF u.tld # NoName /\ u.tld # <<>> THEN <<[k |-> "TLD", v |-> u.tld]>> ELSE <<>>)
    \o (IF u.domain # NoName /\ u.domain # <<>>
        THEN <<[k |-> "Domain", v |-> u.domain]>> ELSE <<>>)
    \o (IF u.hostname # NoName /\ u.hostname # <<>>
        THEN <<[k |-> "Hostname", v |-> u.hostname]>> ELSE <<>>)
    \o (IF settings.enable_language_filtering
        THEN <<[k |-> "Language", v |-> IF detected # None THEN detected ELSE "unknown"]>>
        ELSE <<>>)

\* C19: the metadata list of every delivered bundle is the seven base
\* entries in their order, then the TLD, Domain and Hostname entries for the
\* non-empty components of the URL that passed the filter, then, when
\* language filtering is enabled, exactly one last entry Language with the
\* detected code or unknown; with language filtering disabled it has no
\* Language entry.
Thm_C19_MetadataListShape ==
    /\ BundleReady =>
         LET data == processed_data[1].record_data
         IN  /\ Len(data) >= Len(BaseKeys)
             /\ SubSeq(KeysOf(data), 1, Len(BaseKeys)) = BaseKeys
             /\ data[1].v = record_count
             /\ AfterBase(data) = ClaimedTail(url_check[1], lang_check[1].detected)
    /\ \A i \in {j \in DOMAIN dump_file : dump_file[j].complete} :
         LET keys == KeysOf(dump_file[i].record_data)
         IN  /\ SubSeq(keys, 1, Len(BaseKeys)) = BaseKeys
             /\ Cardinality({j \in DOMAIN keys : keys[j] = "Language"})
                  = (IF settings.enable_language_filtering THEN 1 ELSE 0)
             /\ settings.enable_language_filtering => Last(keys) = "Language"

\* a bundle with the seven base entries, the three URL entries and the
\* language entry
Wit_C19_AllElevenEntries ==
    /\ BundleReady
    /\ KeysOf(processed_data[1].record_data)
         = BaseKeys \o <<"TLD", "Domain", "Hostname", "Language">>
    /\ processed_data[1].record_data[11].v # "unknown"

\* --------------------------------------------------------------- C20
\* the statements of process_record
InProcessRecord ==
    pc \in {"repair", "normalize", "language", "length", "extract", "return"}

\* C20: process_record leaves the record_data list and the payload string it
\* is given unmodified, and the original_payload of its result is the
\* payload it was given.
Cex_C20_InputsNotMutated ==
    /\ [][InProcessRecord => (record_data' = record_data
                              /\ html_payload' = html_payload)]_vars
    /\ [](BundleReady => processed_data[1].original_payload = html_payload[1])


\* --------------------------------------------------------------- C21
\* the record at hand ended in a filtered state
Filtered == \E i \in DOMAIN trace : trace[i].outcome = "filtered"

\* the list read_warc_file built for the record at hand before it called
\* process_record
ListOfCaller ==
    BaseRecordData(rec[1], record_count)
    \o (IF url_check # <<>> /\ url_check[1].ok THEN UrlEntries(url_check[1]) ELSE <<>>)

\* C21: when a record is rejected by the URL, language or length filter,
\* nothing is handed to a sink or written for it, the record_data list is
\* as the caller built it, without any entry appended by process_record, no
\* later stage runs, and the loop goes on to the next record.
Thm_C21_FilteredLeavesNoTrace ==
    Filtered =>
        /\ ~Delivered
        /\ \A i \in DOMAIN dump_file : dump_file[i].record # record_count
        /\ record_data = ListOfCaller
        /\ trace[Len(trace)].outcome = "filtered"
        /\ extracted = <<>>
        /\ processed_data \in {<<>>, <<NoneData>>}
        /\ pc \in {"output", "iter", "finished"}
        /\ exit_code = <<>>

\* the length filter rejected a record of an accepted host, after an
\* earlier record was written, and the loop is at the next record
Wit_C21_TooShortSkipped ==
    /\ trace # <<>>
    /\ trace[Len(trace)] = Ran("length", "filtered")
    /\ processed_data = <<NoneData>>
    /\ Len(record_data) = 10
    /\ pc = "iter"
    /\ Len(dump_file) = 1


\* --------------------------------------------------------------- C22
\* C22: a step that raises while a record is processed (URL classification,
\* reading and decoding the payload, process_record, console or dump output)
\* never ends the run: the run does not exit with an error while a record
\* is at hand.
Cex_C22_RecordFailureDoesNotExit ==
    exit_code = <<1>> => rec = <<>>


\* --------------------------------------------------------------- C23
\* output_dump was called for the record at hand and its write raised
DumpFailedHere ==
    \E i \in DOMAIN handed :
        /\ handed[i].record = record_count
        /\ handed[i].sink = "dump"
        /\ handed[i].outcome # "written"

\* C23: when creating the directory, opening the file or writing the block
\* raises inside output_dump, output_dump returns normally and
\* read_warc_file goes on with the following records: the run has not
\* exited and the loop is at its next iteration.
Thm_C23_DumpFailureContained ==
    DumpFailedHere =>
        /\ pc \in {"iter", "finished"}
        /\ exit_code = <<>>
        /\ trace[Len(trace)] = Ran("deliver", "pass")

\* the write of the first record failed and the second record was written
Wit_C23_NextRecordWrittenAfterFailure ==
    /\ Len(handed) = 2
    /\ handed[1].outcome = "failed"
    /\ handed[2].outcome = "written"
    /\ Len(dump_file) = 1
    /\ dump_file[1].record = 2


\* --------------------------------------------------------------- C25
\* the blocks of the output file that belong to record n
BlocksOf(n) == {i \in DOMAIN dump_file : dump_file[i].record = n}

\* the records output_dump was called for
Dumped == {i \in DOMAIN handed : handed[i].sink = "dump"}

\* C25 as stated: the output file holds exactly one block, written
\* completely, for every accepted record, the blocks in the order of the
\* records in the archive, and nothing once written is lost.
Cex_C25_OneBlockPerAcceptedRecord ==
    /\ \A i \in Dumped :
         /\ Cardinality(BlocksOf(handed[i].record)) = 1
         /\ \A b \in BlocksOf(handed[i].record) : dump_file[b].complete
    /\ \A i, j \in DOMAIN dump_file :
         i < j => dump_file[i].record < dump_file[j].record

\* C25, amended: the output file holds at most one block per accepted
\* record: one complete block when the write did not raise, one incomplete
\* block when it raised midway, none when the directory or the file could
\* not be opened; every block belongs to an accepted record, the blocks are
\* in the order of the records in the archive, and a file that exists is
\* appended to, so that no earlier block is lost.
Thm_C25_BlocksInOrderAppendOnly ==
    /\ \A i \in Dumped :
         LET blocks == BlocksOf(handed[i].record)
         IN  /\ Cardinality(blocks) = (IF handed[i].outcome = "failed" THEN 0 ELSE 1)
             /\ \A b \in blocks :
                  dump_file[b].complete = (handed[i].outcome = "written")
    /\ \A b \in DOMAIN dump_file :
         \E i \in Dumped : handed[i].record = dump_file[b].record
    /\ \A i, j \in DOMAIN dump_file :
         i < j => dump_file[i].record < dump_file[j].record

\* a block cut short by a failing write is followed by the complete block
\* of the next record
Wit_C25_AppendedAfterIncompleteBlock ==
    /\ Len(dump_file) = 2
    /\ ~dump_file[1].complete /\ dump_file[1].record = 1
    /\ dump_file[2].complete /\ dump_file[2].record = 2
    /\ handed[1].outcome = "partial"


\* --------------------------------------------------------------- C24
\* the record at hand is not a response
NotAResponse == rec # <<>> /\ rec[1].rec_type # "response"

\* the record at hand is a response that neither declares HTML nor starts
\* as HTML
NotHtml ==
    /\ rec # <<>>
    /\ rec[1].rec_type = "response"
    /\ ~ContentTypeSaysHtml(rec[1].content_type)
    /\ ~StartsAsHtml(rec[1].payload)

StagesOfRecord == {trace[i].stage : i \in DOMAIN trace}

\* C24 as stated: for a record that is not a response or not HTML, no stage
\* runs at all, URL classification and payload decoding included.
Cex_C24_SkippedBeforeAnyStage ==
    (NotAResponse \/ NotHtml) => trace = <<>>

\* C24, amended: a record that is not a response is skipped after URL
\* classification, before its payload is decoded; a response that is not
\* HTML is skipped after URL classification and decoding; for neither does
\* repair, normalization, the language check, the length check or
\* extraction run, and nothing is delivered.
Thm_C24_SkippedBeforeProcessRecord ==
    /\ NotAResponse =>
         /\ StagesOfRecord \subseteq {"url"}
         /\ html_payload = <<>>
         /\ is_html = <<>>
    /\ NotHtml =>
         /\ StagesOfRecord \subseteq {"url", "decode"}
         /\ is_html \in {<<>>, <<FALSE>>}
    /\ (NotAResponse \/ NotHtml) =>
         /\ repaired_payload = <<>>
         /\ normalized_payload = <<>>
         /\ lang_check = <<>>
         /\ length_check = <<>>
         /\ extracted = <<>>
         /\ processed_data = <<>>
         /\ ~Delivered

\* a PDF response went through the URL filter and decoding and was skipped
Wit_C24_NonHtmlDecodedThenSkipped ==
    /\ NotHtml
    /\ StagesOfRecord = {"url", "decode"}
    /\ html_payload # <<>>
    /\ is_html = <<FALSE>>
    /\ pc = "iter"


\* --------------------------------------------------------------- C26
\* C26: every option the pipeline reads while it processes a record is an
\* option the settings object has, with a value, so that no read of an
\* option raises.
Cex_C26_EveryOptionReadIsDeclared ==
    \A i \in DOMAIN reads : ~reads[i].raised


\* --------------------------------------------------------------- C27
\* C27: with URL filtering disabled no record is skipped at the URL stage of
\* read_warc_file, whatever its target URL, a missing or empty one included.
Cex_C27_DisabledUrlFilterSkipsNothing ==
    ~settings.enable_url_filtering =>
        \A i \in DOMAIN trace : trace[i] # Ran("url", "filtered")


\* --------------------------------------------------------------- C28
\* a list has the entry Language: unknown
HasUnknownLanguage(data) ==
    \E i \in DOMAIN data : data[i] = [k |-> "Language", v |-> "unknown"]

\* C28: with language filtering enabled, every result process_record
\* returns has a detected language, which is one of the accepted languages
\* (whatever the case of the letters), and no list of a result or of a
\* written block has the entry Language: unknown.
Thm_C28_LanguageNeverUnknown ==
    settings.enable_language_filtering =>
        /\ (processed_data # <<>> /\ ~processed_data[1].none) =>
             /\ processed_data[1].detected_language # None
             /\ \E a \in settings.accepted_languages :
                   LowerCode(a) = LowerCode(processed_data[1].detected_language)
             /\ ~HasUnknownLanguage(processed_data[1].record_data)
        /\ ~HasUnknownLanguage(record_data)
        /\ \A i \in DOMAIN dump_file : ~HasUnknownLanguage(dump_file[i].record_data)

\* a result with the language de, accepted as DE, is about to be delivered
Wit_C28_ResultWithAcceptedLanguage ==
    /\ settings.enable_language_filtering
    /\ BundleReady
    /\ processed_data[1].detected_language = "de"
    /\ "de" \notin settings.accepted_languages
    /\ Last(processed_data[1].record_data) = [k |-> "Language", v |-> "de"]

\* C29: every result's visible_text is at least minimal_text_length
\* characters long, whichever strategy measured the text and whichever
\* produced it
Cex_C29_ResultTextMeetsMinimum ==
    BundleReady =>
        Len(processed_data[1].visible_text) >= settings.minimal_text_length

\* C30: the compression ratio of output_console never divides by zero: a
\* record whose normalized payload is empty never passes the length filter,
\* so no record handed to the console has an empty payload and the
\* statistics never raise
Thm_C30_RatioNeverDividesByZero ==
    /\ (length_check = <<TRUE>> => PayloadLength(normalized_payload[1]) > 0)
    /\ (BundleReady =>
          CompressionRatio(processed_data[1].visible_text,
                           normalized_payload[1]) # <<>>)
    /\ \A i \in DOMAIN handed : handed[i].outcome # "raised"

\* an empty payload was turned away by the length filter under the least
\* minimum, after an earlier record had its ratio printed
Wit_C30_EmptyPayloadFilteredAtLeastMinimum ==
    /\ settings.minimal_text_length = LeastMinimalTextLength
    /\ settings.show_compression_stats
    /\ Len(handed) = 1
    /\ handed[1].sink = "console"
    /\ handed[1].outcome = "shown"
    /\ record_count = 2
    /\ normalized_payload # <<>>
    /\ PayloadLength(normalized_payload[1]) = 0
    /\ length_check = <<FALSE>>

====
